---- MODULE Spec2Model ----
(***************************************************************************)
(* State-machine model of the concurrency core of tele-claude:             *)
(*   - core/session_actor.py  SessionActor (mailbox, run loop, interrupt)  *)
(*   - session.py             interrupt_session, send_to_claude (a turn),  *)
(*                            the permission table                         *)
(*   - dispatcher.py          EventDispatcher (bounded queue, workers)     *)
(*   - core/dispatcher.py     Dispatcher (session registry, route_trigger) *)
(*                                                                         *)
(* Scheduling is asyncio's: one event loop, cooperative tasks.  A task     *)
(* runs without interruption between two awaits that really suspend, so    *)
(* every action below is the code between two such suspension points.      *)
(*                                                                         *)
(* asyncio facts the model relies on (CPython 3.10/3.11, the versions the  *)
(* source's syntax requires):                                              *)
(*   - asyncio.Queue is FIFO; put() on an unbounded queue and get() on a   *)
(*     non-empty queue do not suspend.                                     *)
(*   - asyncio.wait_for(task, t) returns only once `task` is done: on      *)
(*     timeout it cancels the task and waits for the cancellation to be    *)
(*     processed; it raises TimeoutError only if the task ended cancelled. *)
(*   - awaiting a task returns when the task is done; cancelling a task    *)
(*     that awaits a future cancels that future.                           *)
(*   - asyncio.Lock is FIFO-fair: acquire() takes the lock at once only    *)
(*     if it is free and nobody is queued.                                 *)
(***************************************************************************)
EXTENDS Integers, Sequences, FiniteSets, TLC

\* ----------------------------------------------------------------- bounds
\* Number of triggers enqueued on the actor in one behaviour.
MaxTriggers == 3
\* Number of streamed messages one turn handles before it must finish.
MaxEmits == 1
\* Number of close() calls on the actor in one behaviour.
MaxCloses == 2
\* Number of start() calls made while the run loop is alive that are recorded.
MaxStarts == 2

\* Largest max_queue_size an EventDispatcher is configured with (0..this).
MaxQueueCfg == 2
\* worker_count the EventDispatcher is configured with.
WorkerCfg == 2
\* Number of enqueue calls on the EventDispatcher in one behaviour.
MaxItems == 3

\* Number of permission checks (can_use_tool calls) in one behaviour.
MaxRequests == 2
\* Number of resolve_permission calls in one behaviour.
MaxResolves == 2

\* Number of route_trigger calls on the coordinator in one behaviour.
MaxRoutes == 4
\* Number of process restarts in one behaviour.
MaxRestarts == 1

\* Number of turns started by the actors that share session.sessions.
MaxRegTurns == 3

\* The value of an Optional[asyncio.Task] field that holds no task.
NoTask == 0

\* Kinds of trigger, by what _handle_prompt does with them:
\*   "text"  - non-empty prompt: a turn is started
\*   "empty" - no prompt text and no images: nothing happens
\*   "image" - images without text: the first image is buffered
TriggerKinds == {"text", "empty", "image"}

\* Further kinds:
\*   "text_image" - prompt text together with images: a turn is started
\*   "command"    - a slash command that is handled locally (the command
\*                  table gives "" for it): no turn is started
MediaKinds == {"text", "image", "text_image"}
CommandKinds == {"text", "empty", "image", "command"}

\* pending_image_path is None
NoImage == 0

VARIABLES
    \* ---- SessionActor (core/session_actor.py)
    mailbox,            \* _mailbox: sequence of trigger ids, head = oldest
    generation_id,      \* _generation_id
    active,             \* active
    current_task,       \* current_task: a task id or NoTask
    pending_permission, \* pending_permission: "None" | "Future" (it holds a future)
    perm_future,        \* the future last put there: "none" | "pending" | "True" | "False" | "cancelled"
    interrupt_count,    \* stats.interrupt_count
    error_count,        \* stats.error_count
    message_count,      \* stats.message_count
    loop_pc,            \* where _run_loop stands
    loop_trigger,       \* the trigger _run_loop is processing (0: none)
    loop_wait,          \* the task _run_loop is awaiting (NoTask: none)
    loop_cancel,        \* _run_loop_task.cancel() was called and is not yet delivered
    close_pc,           \* where a call of close() stands
    close_wait,         \* the task close() is awaiting (NoTask: none)
    closes,             \* number of close() calls made
    \* ---- ClaudeSession / module state of session.py seen by the actor
    sess_exists,        \* thread_id in sessions
    sess_current_task,  \* session.current_task
    interrupt_event,    \* session.interrupt_event: "None" | "clear" | "set"
    pending_image_path, \* session.pending_image_path: the trigger whose
                        \* first image is buffered, or NoImage
    tasks,              \* every send_to_claude task created, by task id
    \* ---- history (not program state)
    enqueued,           \* kinds of the triggers enqueued; trigger id = index
    taken,              \* trigger ids in the order _run_loop took them
    processed,          \* one record per trigger whose handling completed
    loop_before,        \* generation and running flag at the last dequeue
    stale_effects,      \* tasks that applied an effect under a stale generation
    start_hist,         \* history of start(): calls made while the run loop
                        \* was alive, run-loop tasks replaced while alive
    watchdog_task,      \* claude_session._watchdog_task: [state, handled]
    \* ---- EventDispatcher (dispatcher.py)
    cfg_max_queue,      \* the max_queue_size argument of __init__
    dqueue,             \* _queue: sequence of item ids, head = oldest
    started,            \* _started (the worker tasks exist)
    workers_started,    \* number of worker tasks start_if_needed has created
    session_locks,      \* _session_locks: key -> lock id (NoLock: no entry)
    locks,              \* every asyncio.Lock created, by lock id
    wpc,                \* where each worker stands: "idle" | "get" | "lock_wait" | "run" | "dead"
    witem,              \* the item each worker holds (0: none)
    wlock,              \* the lock each worker uses for its item (NoLock: none)
    items,              \* every item passed to enqueue, by item id (history)
    last_failed,        \* the item whose work raised most recently (0: none yet)
    \* ---- permission requests (session.py)
    pending_permissions,\* keys of the pending_permissions dict (request ids)
    allowlist,          \* content of the persistent allowlist file
    perm_reqs,          \* every request_tool_permission call, by request id
    resolve_log,        \* every resolve_permission call and how it ended (history)
    auto_allowed,       \* permission checks answered from the allowlists (count)
    \* ---- Dispatcher of core/dispatcher.py (the coordinator)
    coord_sessions,     \* _sessions: session_key -> actor id (NoActor: no entry)
    coord_lock,         \* _session_lock: [locked, waiters]
    routes,             \* every route_trigger call, by call id
    actors,             \* every SessionActor constructed, by actor id
    coord_stop,         \* Dispatcher.stop(): [pc, todo, closed, listeners_stopped]
    session_store,      \* the durable store: session_key -> backend session id
    restarts,           \* number of process restarts so far
    cwd_call,           \* the last recorded call of _resolve_cwd: its inputs,
                        \* its result, and whether it asked the listener
    \* ---- session.sessions with the actors of several conversations
    reg_sessions,       \* sessions: thread_id -> ClaudeSession object id
    reg_objs,           \* every ClaudeSession constructed: [owner, thread_id,
                        \* current_task]
    reg_actors,         \* per conversation key: [session, current_task, pc, wait]
    reg_turns           \* every send_to_claude task: [by, session, runs_in,
                        \* stage, cancel, interrupted_by]

actorVars == <<mailbox, generation_id, active, current_task, pending_permission,
               perm_future,
               interrupt_count, error_count, message_count, loop_pc, loop_trigger,
               loop_wait, loop_cancel, close_pc, close_wait, closes,
               sess_exists, sess_current_task, interrupt_event, pending_image_path,
               tasks, enqueued, taken, processed, loop_before, stale_effects,
               start_hist, watchdog_task>>

dispVars == <<cfg_max_queue, dqueue, started, workers_started,
              session_locks, locks, wpc,
              witem, wlock, items, last_failed>>

permVars == <<pending_permissions, allowlist, perm_reqs, resolve_log,
              auto_allowed>>

storeVars == <<session_store, restarts>>

regVars == <<reg_sessions, reg_objs, reg_actors, reg_turns>>

coordVars == <<coord_sessions, coord_lock, routes, actors, coord_stop,
               storeVars, cwd_call>>

vars == <<actorVars, dispVars, permVars, coordVars, regVars>>

\* what each part of the program never touches
otherThanActor == <<dispVars, permVars, coordVars, regVars>>
otherThanDisp == <<actorVars, permVars, coordVars, regVars>>
otherThanPerm == <<actorVars, dispVars, coordVars, regVars>>
otherThanCoord == <<actorVars, dispVars, permVars, regVars>>

\* claude_session._watchdog_task is None
NoWatchdog == [state |-> "None", handled |-> 0]

\* ------------------------------------------------------------ actor: Init
ActorInit ==
    /\ mailbox = <<>>
    /\ generation_id = 0
    /\ active = TRUE
    /\ current_task = NoTask
    /\ pending_permission = "None"
    /\ perm_future = "none"
    /\ interrupt_count = 0
    /\ error_count = 0
    /\ message_count = 0
    /\ loop_pc = "unstarted"
    /\ loop_trigger = 0
    /\ loop_wait = NoTask
    /\ loop_cancel = FALSE
    /\ close_pc = "idle"
    /\ close_wait = NoTask
    /\ closes = 0
    /\ sess_exists = TRUE
    /\ sess_current_task = NoTask
    /\ interrupt_event = "None"
    /\ pending_image_path = NoImage
    /\ tasks = <<>>
    /\ enqueued = <<>>
    /\ taken = <<>>
    /\ processed = <<>>
    /\ loop_before = [gen |-> 0, running |-> FALSE]
    /\ stale_effects = {}
    /\ start_hist = [alive_calls |-> 0, orphans |-> 0]
    /\ watchdog_task = NoWatchdog

\* --------------------------------------------------------- actor: helpers
TaskIds == 1..Len(tasks)

\* task.done()
TaskDone(k) == tasks[k].stage = "done"

\* `self.current_task and not self.current_task.done()`
TaskRunning(k) == k # NoTask /\ ~TaskDone(k)

\* asyncio.Queue.put_nowait / get_nowait on the mailbox
MailboxPut(q, t) == Append(q, t)
\* (mutant of MailboxNext: a LIFO mailbox hands out the newest trigger)
MailboxNextNewest(q) == q[Len(q)]
MailboxNext(q) == Head(q)
MailboxRest(q) == Tail(q)

\* self._generation_id += 1 before the interrupt, and before the start
\* (mutant of GenAfterInterrupt: the increment before the interrupt is lost)
GenAfterInterruptLost(g) == g
GenAfterInterrupt(g) == g + 1
\* (mutant of GenAfterStart: the increment before the start is lost)
GenAfterStartKept(g) == g
GenAfterStart(g) == g + 1

\* asyncio.create_task(send_to_claude(...)): a task that has not run yet
NewTask(gen, prompt) == [gen |-> gen, stage |-> "new", cancel |-> FALSE,
                         result |-> "none", emits |-> 0, prompt |-> prompt]

\* A turn applies a side effect (reply sink or session state); it is
\* recorded when the actor's generation is past the turn's.
Effect(k) == IF tasks[k].gen < generation_id
             THEN stale_effects \cup {k}
             ELSE stale_effects

\* task.cancel(): a no-op on a finished task, else the request is pending
\* until the task next runs.
CancelTask(ts, k) == IF ts[k].stage = "done" THEN ts
                     ELSE [ts EXCEPT ![k].cancel = TRUE]

\* asyncio.wait_for(task, timeout=2.0) and `await task` hand control back
\* only when the awaited task is done.
\* (mutant of WaitForReturns: a wait that gives up at its timeout and
\* returns with the turn still running)
WaitForReturnsAtTimeout(k) == TRUE
WaitForReturns(k) == TaskDone(k)

\* the actor's permission field and the future it refers to
permissionVars == <<pending_permission, perm_future>>

\* (mutant of FutureAfterCancel: the future is dropped without cancel())
FutureLeftPending(field, fut) == fut

\* _cancel_current_task lines 184-185: a future held in the field that is
\* not done is cancelled
FutureAfterCancel(field, fut) ==
    IF field = "Future" /\ fut = "pending" THEN "cancelled" ELSE fut

\* _cancel_current_task lines 184-186, the end of the interrupt procedure
CancelPermission ==
    /\ perm_future' = FutureAfterCancel(pending_permission, perm_future)
    /\ pending_permission' = "None"

\* interrupt_session, lines 278-292: is there an active query to interrupt?
HasActiveQuery == sess_exists /\ TaskRunning(sess_current_task)

\* ------------------------------------------------- actor: _handle_prompt
\* where the handling of a prompt may raise an Exception: before the try
\* block of _handle_prompt (lines 66-99, caught by _run_loop at line 59), or
\* inside it (lines 105-117, caught at line 118)
PromptRaises == {"none", "before_try", "in_try"}

\* (mutant of ErrorCounted: an exception counted at line 119 and again at
\* line 60)
ErrorCountedTwice(n) == n + 2

\* stats.error_count += 1 (lines 60, 114, 119)
ErrorCounted(n) == n + 1

\* lines 76-99: does _handle_prompt get as far as starting a turn for a
\* trigger of this kind?  A locally handled command does not, unless a
\* buffered image was put in front of it: then the prompt no longer is the
\* command (an image path names no command).
StartsTurn(kind) ==
    \/ kind \in {"text", "text_image"}
    \/ kind = "command" /\ pending_image_path # NoImage

\* the handling of a prompt of this kind fails: it raises, or
\* start_claude_task returns None because the session does not exist
PromptFails(kind, raises) ==
    IF StartsTurn(kind) THEN raises # "none" \/ ~sess_exists
    ELSE kind = "command" /\ raises = "before_try"

\* (mutant of BufferAfterUse: the buffered image is read and not cleared)
BufferKept(b) == b

\* line 79: pending_image_path = None once the buffered image is used
BufferAfterUse(b) == NoImage

\* lines 76-84: the prompt given to the turn of trigger t, as its parts in
\* order: the block of the trigger's own images, the buffered first image of
\* an earlier trigger, the text.
AssemblePrompt(t, kind, buffered) ==
    LET text == <<[part |-> "text", of |-> t]>>
        with_buffered ==
            IF buffered # NoImage
            THEN <<[part |-> "first_image", of |-> buffered]>> \o text
            ELSE text
    IN  IF kind = "text_image"
        THEN <<[part |-> "images", of |-> t]>> \o with_buffered
        ELSE with_buffered

\* _handle_prompt(prompt, images, gen_id) for trigger t with `cur` the value
\* current_task has when it is called, together with the except clause of
\* _run_loop.  Sets tasks, current_task, sess_current_task, message_count,
\* error_count, pending_image_path.
HandlePrompt(t, gen, cur, raises) ==
    LET kind == enqueued[t]
    IN  IF kind = "empty"
        THEN /\ current_task' = cur
             /\ UNCHANGED <<tasks, sess_current_task, message_count,
                            error_count, pending_image_path>>
        ELSE IF kind = "image"
        THEN /\ pending_image_path' = t
             /\ current_task' = cur
             /\ UNCHANGED <<tasks, sess_current_task, message_count,
                            error_count>>
        ELSE IF ~StartsTurn(kind)
        THEN \* a locally handled command: _handle_platform_command, return
             /\ current_task' = cur
             /\ error_count' = IF PromptFails(kind, raises)
                                THEN ErrorCounted(error_count)
                                ELSE error_count
             /\ UNCHANGED <<tasks, sess_current_task, message_count,
                            pending_image_path>>
        ELSE /\ pending_image_path' =
                   IF pending_image_path # NoImage
                   THEN BufferAfterUse(pending_image_path)
                   ELSE pending_image_path
             /\ message_count' = IF raises = "before_try" THEN message_count
                                 ELSE message_count + 1
             /\ IF PromptFails(kind, raises)
                THEN \* an Exception, or start_claude_task returns None
                     /\ error_count' = ErrorCounted(error_count)
                     /\ current_task' = cur
                     /\ UNCHANGED <<tasks, sess_current_task>>
                ELSE /\ tasks' = Append(tasks,
                            NewTask(gen, AssemblePrompt(t, kind,
                                                        pending_image_path)))
                     /\ current_task' = Len(tasks) + 1
                     /\ sess_current_task' = Len(tasks) + 1
                     /\ UNCHANGED error_count

\* (mutant of LoopContinues: a loop that awaits the turn it started before
\* going back to the mailbox)
LoopAwaitsTurn(act) == "turn_wait"

\* _run_loop after _handle_prompt has returned: task_done, then the test
\* `while self.active` and the next mailbox.get()
LoopContinues(act) == IF act THEN "get" ELSE "done"

\* _run_loop lines 57-63 for trigger t: the second increment, the prompt,
\* the except clause, task_done and the loop test.  `before` is what was
\* recorded at dequeue, g the generation now, cur the value of current_task
\* now.  A cancellation of the run loop that was swallowed on the way here
\* is gone.
FinishTrigger(t, before, g, cur) ==
    \E raises \in PromptRaises :
        /\ generation_id' = GenAfterStart(g)
        /\ HandlePrompt(t, GenAfterStart(g), cur, raises)
        /\ processed' = Append(processed,
                               [trigger |-> t, before |-> before.gen,
                                running |-> before.running,
                                after |-> GenAfterStart(g),
                                failed |-> PromptFails(enqueued[t], raises)])
        /\ loop_pc' = LoopContinues(active)
        /\ loop_trigger' = 0
        /\ loop_wait' = NoTask
        /\ loop_cancel' = FALSE

\* ------------------------------------------------------- actor: actions
closeVars == <<close_pc, close_wait, closes>>
histVars == <<enqueued, taken, processed, loop_before, stale_effects>>
statVars == <<interrupt_count, error_count, message_count>>

\* (mutant of StartSpawns: start() creates a run-loop task at every call)
StartSpawnsAlways(pc) == TRUE

\* start(): `self._run_loop_task is None or self._run_loop_task.done()`
StartSpawns(pc) == pc \in {"unstarted", "done"}

\* a run-loop task that is not done
LoopAlive(pc) == pc \notin {"unstarted", "done"}

\* SessionActor.start: creates the run-loop task unless one is alive; a
\* loop created on an inactive actor ends at its first test of `active`.
\* With `record` the call is entered in start_hist (at most MaxStarts calls
\* made while the loop is alive are entered).
ActorStart(record) ==
    /\ UNCHANGED otherThanActor
    /\ UNCHANGED watchdog_task
    /\ record => (~LoopAlive(loop_pc) \/ start_hist.alive_calls < MaxStarts)
    /\ loop_pc' = IF StartSpawns(loop_pc)
                  THEN IF active THEN "get" ELSE "done"
                  ELSE loop_pc
    /\ start_hist' =
          IF ~record \/ ~LoopAlive(loop_pc) THEN start_hist
          ELSE [alive_calls |-> start_hist.alive_calls + 1,
                orphans |-> IF StartSpawns(loop_pc)
                            THEN start_hist.orphans + 1
                            ELSE start_hist.orphans]
    /\ UNCHANGED <<mailbox, generation_id, active, current_task,
                   permissionVars, statVars, loop_trigger, loop_wait,
                   loop_cancel, closeVars, sess_exists, sess_current_task,
                   interrupt_event, pending_image_path, tasks, histVars>>

\* SessionActor.enqueue: the mailbox is unbounded, put never suspends
Enqueue(kind) ==
    /\ UNCHANGED otherThanActor
    /\ UNCHANGED <<start_hist, watchdog_task>>
    /\ Len(enqueued) < MaxTriggers
    /\ enqueued' = Append(enqueued, kind)
    /\ mailbox' = MailboxPut(mailbox, Len(enqueued) + 1)
    /\ UNCHANGED <<generation_id, active, current_task, permissionVars,
                   statVars, loop_pc, loop_trigger, loop_wait, loop_cancel,
                   closeVars, sess_exists, sess_current_task,
                   interrupt_event, pending_image_path, tasks, taken,
                   processed, loop_before, stale_effects>>

\* (mutant of InterruptNeeded: the run loop interrupts the running turn only
\* for a trigger that is going to start a turn)
InterruptOnlyForTurn(cur, kind) == TaskRunning(cur) /\ StartsTurn(kind)

\* _run_loop line 51: `if self.current_task and not self.current_task.done()`,
\* evaluated before _handle_prompt looks at the trigger
InterruptNeeded(cur, kind) == TaskRunning(cur)

\* _run_loop takes the next trigger.  With no turn running the whole
\* handling is one step (nothing in it suspends).  With a turn running the
\* step runs up to the first suspension inside _cancel_current_task:
\* interrupt_session waiting for the turn (soft), or, when interrupt_session
\* finds no active query, the actor's own cancel-and-await (hard).
RunLoopTake ==
    /\ UNCHANGED otherThanActor
    /\ UNCHANGED <<start_hist, watchdog_task>>
    /\ loop_pc = "get"
    /\ ~loop_cancel
    /\ mailbox # <<>>
    /\ LET t == MailboxNext(mailbox)
           before == [gen |-> generation_id,
                      running |-> TaskRunning(current_task)]
       IN  /\ mailbox' = MailboxRest(mailbox)
           /\ taken' = Append(taken, t)
           /\ loop_before' = before
           /\ IF InterruptNeeded(current_task, enqueued[t])
              THEN /\ generation_id' = GenAfterInterrupt(generation_id)
                   /\ interrupt_count' = interrupt_count + 1
                   /\ loop_trigger' = t
                   /\ IF HasActiveQuery
                      THEN /\ interrupt_event' =
                                IF interrupt_event = "None" THEN "None" ELSE "set"
                           /\ loop_pc' = "soft_wait"
                           /\ loop_wait' = sess_current_task
                           /\ UNCHANGED tasks
                      ELSE /\ tasks' = CancelTask(tasks, current_task)
                           /\ loop_pc' = "hard_wait"
                           /\ loop_wait' = current_task
                           /\ UNCHANGED interrupt_event
                   /\ UNCHANGED <<current_task, permissionVars,
                                  error_count, message_count, loop_cancel,
                                  sess_current_task, pending_image_path,
                                  processed>>
              ELSE /\ FinishTrigger(t, before, generation_id, current_task)
                   /\ UNCHANGED <<interrupt_count, permissionVars,
                                  interrupt_event>>
    /\ UNCHANGED <<active, closeVars, sess_exists, enqueued, stale_effects>>

\* interrupt_session line 329: the soft wait expires; wait_for cancels the
\* turn and goes on waiting for it.
SoftTimeout ==
    /\ UNCHANGED otherThanActor
    /\ UNCHANGED <<start_hist, watchdog_task>>
    /\ loop_pc = "soft_wait"
    /\ ~loop_cancel
    /\ ~TaskDone(loop_wait)
    /\ tasks' = CancelTask(tasks, loop_wait)
    /\ loop_pc' = "cancel_wait"
    /\ UNCHANGED <<mailbox, generation_id, active, current_task,
                   permissionVars, statVars, loop_trigger, loop_wait,
                   loop_cancel, closeVars, sess_exists, sess_current_task,
                   interrupt_event, pending_image_path, histVars>>

\* What interrupt_session gives when its wait for task w is over, from
\* program point pc: "True", "False" (line 345 raised AttributeError
\* because session.current_task is None; the actor catches it), or
\* "CancelledError" (the turn ended cancelled, by someone else's cancel,
\* while wait_for had not timed out: the error passes through every
\* `except Exception` on the way up).
InterruptOutcome(pc, w) ==
    IF tasks[w].result # "cancelled" THEN "True"
    ELSE IF pc = "soft_wait" THEN "CancelledError"
    ELSE IF sess_current_task = NoTask THEN "False"
    ELSE "True"

\* interrupt_session returns to _cancel_current_task (session.py 329-362,
\* then session_actor.py 173-186) and the run loop finishes the trigger.
\* A cancellation of the run loop that arrives during the soft wait when
\* the turn is already done is swallowed by wait_for.
InterruptReturns ==
    /\ UNCHANGED otherThanActor
    /\ UNCHANGED <<start_hist, watchdog_task>>
    /\ loop_pc \in {"soft_wait", "cancel_wait"}
    /\ loop_pc = "cancel_wait" => ~loop_cancel
    /\ WaitForReturns(loop_wait)
    /\ LET outcome == InterruptOutcome(loop_pc, loop_wait)
       IN  IF outcome = "CancelledError"
           THEN /\ loop_pc' = "done"
                /\ loop_trigger' = 0
                /\ loop_wait' = NoTask
                /\ loop_cancel' = FALSE
                /\ UNCHANGED <<generation_id, current_task, permissionVars,
                               error_count, message_count, sess_current_task,
                               pending_image_path, processed, tasks>>
           ELSE IF outcome = "False" /\ TaskRunning(current_task)
           THEN /\ tasks' = CancelTask(tasks, current_task)
                /\ loop_pc' = "hard_wait"
                /\ loop_wait' = current_task
                /\ UNCHANGED <<generation_id, current_task, permissionVars,
                               error_count, message_count, loop_trigger,
                               loop_cancel, sess_current_task,
                               pending_image_path, processed>>
           ELSE /\ CancelPermission
                /\ FinishTrigger(loop_trigger, loop_before, generation_id, NoTask)
    /\ UNCHANGED <<mailbox, active, interrupt_count, closeVars, sess_exists,
                   interrupt_event, enqueued, taken, loop_before,
                   stale_effects>>

\* _cancel_current_task lines 177-186: the awaited turn is done after the
\* actor's own cancel; the run loop finishes the trigger.  A CancelledError
\* raised at line 179, the turn's or the run loop's own, is caught at 180.
HardWaitReturns ==
    /\ UNCHANGED otherThanActor
    /\ UNCHANGED <<start_hist, watchdog_task>>
    /\ loop_pc = "hard_wait"
    /\ WaitForReturns(loop_wait)
    /\ CancelPermission
    /\ FinishTrigger(loop_trigger, loop_before, generation_id, NoTask)
    /\ UNCHANGED <<mailbox, active, interrupt_count, closeVars, sess_exists,
                   interrupt_event, enqueued, taken, loop_before,
                   stale_effects>>

\* _run_loop_task.cancel() reaches the run loop where it is suspended:
\*   at the mailbox (lines 47-49): the loop breaks;
\*   in wait_for's wait after a timeout: the error leaves at once, through
\*     interrupt_session, _cancel_current_task and _run_loop.
\* In the soft wait the cancellation is swallowed by wait_for when the turn
\* is done (see InterruptReturns); close() cancels the run loop only after
\* it has itself waited for the turn, so the turn is done then
\* (CancelFindsTurnDone).  At line 179 it is caught (see HardWaitReturns).
RunLoopCancelled ==
    /\ UNCHANGED otherThanActor
    /\ UNCHANGED <<start_hist, watchdog_task>>
    /\ loop_cancel
    /\ loop_pc \in {"get", "cancel_wait"}
    /\ loop_cancel' = FALSE
    /\ loop_pc' = "done"
    /\ loop_trigger' = 0
    /\ loop_wait' = NoTask
    /\ UNCHANGED <<mailbox, generation_id, active, current_task,
                   permissionVars, statVars, closeVars, sess_exists,
                   sess_current_task, interrupt_event, pending_image_path,
                   tasks, histVars>>

\* ---------------------------------------------------- actor: close()
\* close() lines 198-203 once _cancel_current_task is over: cancel the run
\* loop if it is alive and await it.  Sets close_pc, loop_cancel.
CloseCancelLoop ==
    IF loop_pc \in {"unstarted", "done"}
    THEN close_pc' = "done" /\ UNCHANGED loop_cancel
    ELSE close_pc' = "loop_wait" /\ loop_cancel' = TRUE

\* close() up to its first suspension: active = False, then
\* _cancel_current_task as in the run loop.
CloseBegin ==
    /\ UNCHANGED otherThanActor
    /\ UNCHANGED <<start_hist, watchdog_task>>
    /\ close_pc \in {"idle", "done"}
    /\ closes < MaxCloses
    /\ closes' = closes + 1
    /\ active' = FALSE
    /\ IF current_task # NoTask /\ HasActiveQuery
       THEN /\ interrupt_event' =
                 IF interrupt_event = "None" THEN "None" ELSE "set"
            /\ close_pc' = "soft_wait"
            /\ close_wait' = sess_current_task
            /\ UNCHANGED <<tasks, current_task, permissionVars, loop_cancel>>
       ELSE IF TaskRunning(current_task)
       THEN /\ tasks' = CancelTask(tasks, current_task)
            /\ close_pc' = "hard_wait"
            /\ close_wait' = current_task
            /\ UNCHANGED <<interrupt_event, current_task, permissionVars,
                           loop_cancel>>
       ELSE /\ current_task' = NoTask
            /\ CancelPermission
            /\ close_wait' = NoTask
            /\ CloseCancelLoop
            /\ UNCHANGED <<tasks, interrupt_event>>
    /\ UNCHANGED <<mailbox, generation_id, statVars, loop_pc, loop_trigger,
                   loop_wait, sess_exists, sess_current_task,
                   pending_image_path, histVars>>

\* interrupt_session line 329 inside close(): the soft wait expires
CloseSoftTimeout ==
    /\ UNCHANGED otherThanActor
    /\ UNCHANGED <<start_hist, watchdog_task>>
    /\ close_pc = "soft_wait"
    /\ ~TaskDone(close_wait)
    /\ tasks' = CancelTask(tasks, close_wait)
    /\ close_pc' = "cancel_wait"
    /\ UNCHANGED <<mailbox, generation_id, active, current_task,
                   permissionVars, statVars, loop_pc, loop_trigger,
                   loop_wait, loop_cancel, close_wait, closes, sess_exists,
                   sess_current_task, interrupt_event, pending_image_path,
                   histVars>>

\* interrupt_session returns inside close(); a CancelledError leaves close()
CloseInterruptReturns ==
    /\ UNCHANGED otherThanActor
    /\ UNCHANGED <<start_hist, watchdog_task>>
    /\ close_pc \in {"soft_wait", "cancel_wait"}
    /\ WaitForReturns(close_wait)
    /\ LET outcome == InterruptOutcome(close_pc, close_wait)
       IN  IF outcome = "CancelledError"
           THEN /\ close_pc' = "raised"
                /\ close_wait' = NoTask
                /\ UNCHANGED <<tasks, current_task, permissionVars,
                               loop_cancel>>
           ELSE IF outcome = "False" /\ TaskRunning(current_task)
           THEN /\ tasks' = CancelTask(tasks, current_task)
                /\ close_pc' = "hard_wait"
                /\ close_wait' = current_task
                /\ UNCHANGED <<current_task, permissionVars, loop_cancel>>
           ELSE /\ current_task' = NoTask
                /\ CancelPermission
                /\ close_wait' = NoTask
                /\ CloseCancelLoop
                /\ UNCHANGED tasks
    /\ UNCHANGED <<mailbox, generation_id, active, statVars, loop_pc,
                   loop_trigger, loop_wait, closes, sess_exists,
                   sess_current_task, interrupt_event, pending_image_path,
                   histVars>>

\* _cancel_current_task lines 177-186 inside close()
CloseHardWaitReturns ==
    /\ UNCHANGED otherThanActor
    /\ UNCHANGED <<start_hist, watchdog_task>>
    /\ close_pc = "hard_wait"
    /\ WaitForReturns(close_wait)
    /\ current_task' = NoTask
    /\ CancelPermission
    /\ close_wait' = NoTask
    /\ CloseCancelLoop
    /\ UNCHANGED <<mailbox, generation_id, active, statVars, loop_pc,
                   loop_trigger, loop_wait, closes, sess_exists,
                   sess_current_task, interrupt_event, pending_image_path,
                   tasks, histVars>>

\* close() line 201: the run loop task is done
CloseReturns ==
    /\ UNCHANGED otherThanActor
    /\ UNCHANGED <<start_hist, watchdog_task>>
    /\ close_pc = "loop_wait"
    /\ loop_pc = "done"
    /\ close_pc' = "done"
    /\ UNCHANGED <<mailbox, generation_id, active, current_task,
                   permissionVars, statVars, loop_pc, loop_trigger,
                   loop_wait, loop_cancel, close_wait, closes, sess_exists,
                   sess_current_task, interrupt_event, pending_image_path,
                   tasks, histVars>>

\* ------------------------------------------- a turn: send_to_claude task
\* First step of the task: lines 854-881.
TurnBegin(k) ==
    /\ UNCHANGED otherThanActor
    /\ UNCHANGED <<start_hist, watchdog_task>>
    /\ tasks[k].stage = "new"
    /\ ~tasks[k].cancel
    /\ IF ~sess_exists
       THEN /\ tasks' = [tasks EXCEPT ![k].stage = "done", ![k].result = "ok"]
            /\ UNCHANGED interrupt_event
       ELSE /\ tasks' = [tasks EXCEPT ![k].stage = "streaming"]
            /\ interrupt_event' = "clear"
    /\ UNCHANGED <<mailbox, generation_id, active, current_task,
                   permissionVars, statVars, loop_pc, loop_trigger,
                   loop_wait, loop_cancel, closeVars, sess_exists,
                   sess_current_task, pending_image_path, histVars>>

\* A task cancelled before its first step never runs its body.
TurnCancelledUnstarted(k) ==
    /\ UNCHANGED otherThanActor
    /\ UNCHANGED <<start_hist, watchdog_task>>
    /\ tasks[k].stage = "new"
    /\ tasks[k].cancel
    /\ tasks' = [tasks EXCEPT ![k].stage = "done", ![k].result = "cancelled",
                              ![k].cancel = FALSE]
    /\ UNCHANGED <<mailbox, generation_id, active, current_task,
                   permissionVars, statVars, loop_pc, loop_trigger,
                   loop_wait, loop_cancel, closeVars, sess_exists,
                   sess_current_task, interrupt_event, pending_image_path,
                   histVars>>

\* One streamed message handled with the interrupt flag clear (lines
\* 1034-1199): the turn sends or edits a message or writes session state.
TurnEmit(k) ==
    /\ UNCHANGED otherThanActor
    /\ UNCHANGED <<start_hist, watchdog_task>>
    /\ tasks[k].stage = "streaming"
    /\ ~tasks[k].cancel
    /\ interrupt_event # "set"
    /\ tasks[k].emits < MaxEmits
    /\ tasks' = [tasks EXCEPT ![k].emits = @ + 1]
    /\ stale_effects' = Effect(k)
    /\ UNCHANGED <<mailbox, generation_id, active, current_task,
                   permissionVars, statVars, loop_pc, loop_trigger,
                   loop_wait, loop_cancel, closeVars, sess_exists,
                   sess_current_task, interrupt_event, pending_image_path,
                   enqueued, taken, processed, loop_before>>

\* The stream ends, by itself or by the drain after a soft interrupt (lines
\* 1003-1032: the ack is sent, or session_id is written); lines 1201-1252
\* and the finally block clear session.client and session.current_task.
TurnFinish(k) ==
    /\ UNCHANGED otherThanActor
    /\ UNCHANGED <<start_hist, watchdog_task>>
    /\ tasks[k].stage = "streaming"
    /\ ~tasks[k].cancel
    /\ tasks' = [tasks EXCEPT ![k].stage = "done", ![k].result = "ok"]
    /\ sess_current_task' = NoTask
    /\ stale_effects' = Effect(k)
    /\ UNCHANGED <<mailbox, generation_id, active, current_task,
                   permissionVars, statVars, loop_pc, loop_trigger,
                   loop_wait, loop_cancel, closeVars, sess_exists,
                   interrupt_event, pending_image_path, enqueued, taken,
                   processed, loop_before>>

\* CancelledError reaches the turn inside its try block (lines 1254-1267):
\* it sends "[interrupted by user]", does not re-raise, and the finally
\* block runs.
TurnCancelled(k) ==
    /\ UNCHANGED otherThanActor
    /\ UNCHANGED <<start_hist, watchdog_task>>
    /\ tasks[k].stage = "streaming"
    /\ tasks[k].cancel
    /\ tasks' = [tasks EXCEPT ![k].stage = "done", ![k].result = "ok",
                              ![k].cancel = FALSE]
    /\ sess_current_task' = NoTask
    /\ stale_effects' = Effect(k)
    /\ UNCHANGED <<mailbox, generation_id, active, current_task,
                   permissionVars, statVars, loop_pc, loop_trigger,
                   loop_wait, loop_cancel, closeVars, sess_exists,
                   interrupt_event, pending_image_path, enqueued, taken,
                   processed, loop_before>>

\* stop_session: the session leaves `sessions`
StopSession ==
    /\ UNCHANGED otherThanActor
    /\ UNCHANGED <<start_hist, watchdog_task>>
    /\ sess_exists
    /\ sess_exists' = FALSE
    /\ UNCHANGED <<mailbox, generation_id, active, current_task,
                   permissionVars, statVars, loop_pc, loop_trigger,
                   loop_wait, loop_cancel, closeVars, sess_current_task,
                   interrupt_event, pending_image_path, tasks, histVars>>

\* A permission wait is attached to the actor: a pending future is put in
\* its pending_permission field.
PermissionWaitBegins ==
    /\ UNCHANGED otherThanActor
    /\ UNCHANGED <<start_hist, watchdog_task>>
    /\ pending_permission = "None"
    /\ pending_permission' = "Future"
    /\ perm_future' = "pending"
    /\ UNCHANGED <<mailbox, generation_id, active, current_task, statVars,
                   loop_pc, loop_trigger, loop_wait, loop_cancel, closeVars,
                   sess_exists, sess_current_task, interrupt_event,
                   pending_image_path, tasks, histVars>>

\* SessionActor.resolve_permission(allowed, always)
ActorResolvePermission(allowed) ==
    /\ UNCHANGED otherThanActor
    /\ UNCHANGED <<start_hist, watchdog_task>>
    /\ pending_permission = "Future"
    /\ perm_future' = IF perm_future = "pending"
                        THEN (IF allowed THEN "True" ELSE "False")
                        ELSE perm_future
    /\ pending_permission' = "None"
    /\ UNCHANGED <<mailbox, generation_id, active, current_task, statVars,
                   loop_pc, loop_trigger, loop_wait, loop_cancel, closeVars,
                   sess_exists, sess_current_task, interrupt_event,
                   pending_image_path, tasks, histVars>>

\* every step of the actor and of its turns but enqueue
ActorSteps ==
    \/ ActorStart(FALSE)
    \/ RunLoopTake
    \/ SoftTimeout
    \/ InterruptReturns
    \/ HardWaitReturns
    \/ RunLoopCancelled
    \/ CloseBegin
    \/ CloseSoftTimeout
    \/ CloseInterruptReturns
    \/ CloseHardWaitReturns
    \/ CloseReturns
    \/ \E k \in TaskIds : TurnBegin(k)
    \/ \E k \in TaskIds : TurnCancelledUnstarted(k)
    \/ \E k \in TaskIds : TurnEmit(k)
    \/ \E k \in TaskIds : TurnFinish(k)
    \/ \E k \in TaskIds : TurnCancelled(k)
    \/ StopSession

NextActor ==
    \/ ActorSteps
    \/ \E kind \in TriggerKinds : Enqueue(kind)

\* ============================================================ EventDispatcher
\* dispatcher.py: a bounded asyncio.Queue drained by worker tasks; items that
\* carry a session_id run under the asyncio.Lock of that session_id.
\*
\* asyncio facts relied on: Queue.put_nowait raises QueueFull when
\* qsize() >= maxsize; Queue.get hands out the oldest item and, when it
\* returns, the worker runs on without suspending up to its next await;
\* Lock.acquire succeeds at once only when the lock is free and nobody waits
\* for it, otherwise the caller joins the FIFO of waiters; Lock.release wakes
\* the first waiter, which then owns the lock.

\* item.session_id is None
NoKey == 0
\* no asyncio.Lock (lock is None in _worker, no entry in _session_locks)
NoLock == 0

\* the session ids dispatch items carry
DispatchKeys == {1, 2}
\* self._worker_count = max(1, worker_count)
worker_count == IF WorkerCfg < 1 THEN 1 ELSE WorkerCfg
WorkerIds == 1..worker_count
ItemIds == 1..Len(items)

\* self._max_queue_size = max(1, max_queue_size)
max_queue_size == IF cfg_max_queue < 1 THEN 1 ELSE cfg_max_queue

DispInit ==
    /\ cfg_max_queue \in 0..MaxQueueCfg
    /\ dqueue = <<>>
    /\ started = FALSE
    /\ workers_started = 0
    /\ session_locks = [k \in DispatchKeys |-> NoLock]
    /\ locks = <<>>
    /\ wpc = [w \in WorkerIds |-> "idle"]
    /\ witem = [w \in WorkerIds |-> 0]
    /\ wlock = [w \in WorkerIds |-> NoLock]
    /\ items = <<>>
    /\ last_failed = 0

\* (mutant of QueueFull: a queue without a bound, asyncio.Queue(maxsize=0))
QueueNeverFull(q) == FALSE

\* (mutant of QueueFull: the queue takes one item more than its size)
QueueFullOffByOne(q) == Len(q) > max_queue_size

\* asyncio.Queue.full(), the test put_nowait raises QueueFull on
QueueFull(q) == Len(q) >= max_queue_size

\* (mutant of SessionLockEntry: every item gets a new lock)
SessionLockOverwrite(sl, key, fresh) == fresh

\* self._session_locks.setdefault(item.session_id, asyncio.Lock())
SessionLockEntry(sl, key, fresh) == IF sl[key] = NoLock THEN fresh ELSE sl[key]

\* (mutant of LockFree: a newcomer takes a free lock ahead of its waiters)
LockFreeBarging(l) == ~l.locked

\* asyncio.Lock.acquire takes the lock without waiting
LockFree(l) == ~l.locked /\ l.waiters = <<>>

\* (mutant of StartNeeded: start_if_needed without its test)
StartNeededAlways(st, pcs) == TRUE

\* start_if_needed lines 52-53: workers are created unless _started is set
\* and every worker task of _workers (never empty once set: worker_count is
\* at least 1) is not done
StartNeeded(st, pcs) == ~(st /\ \A w \in WorkerIds : pcs[w] # "dead")

\* (mutant of QueueAfterReject: a full queue gives up its oldest item to
\* take the new one)
QueueDropsOldest(q, i) == Append(Tail(q), i)

\* the queue after put_nowait raised QueueFull for item i: as it was
QueueAfterReject(q, i) == q

\* enqueue(item): start_if_needed, then put_nowait; a full queue drops the
\* item, calls its on_drop if it has one (_schedule_drop wraps the coroutine
\* it returns in a task), and returns False.  When start_if_needed creates
\* workers, worker_count new tasks begin at queue.get; the tasks that are
\* still alive go on (wpc keeps one entry per worker slot: a new task takes
\* the slot of one that is done, workers_started counts them all).
DispEnqueue(key, on_drop) ==
    /\ Len(items) < MaxItems
    /\ started' = TRUE
    /\ wpc' = IF StartNeeded(started, wpc)
              THEN [w \in WorkerIds |->
                      IF wpc[w] \in {"idle", "dead"} THEN "get" ELSE wpc[w]]
              ELSE wpc
    /\ workers_started' = IF StartNeeded(started, wpc)
                          THEN workers_started + worker_count
                          ELSE workers_started
    /\ IF QueueFull(dqueue)
         THEN /\ items' = Append(items,
                     [key |-> key, on_drop |-> on_drop, result |-> FALSE,
                      stage |-> "dropped",
                      on_drop_calls |-> IF on_drop THEN 1 ELSE 0])
              /\ dqueue' = QueueAfterReject(dqueue, Len(items) + 1)
         ELSE /\ items' = Append(items,
                     [key |-> key, on_drop |-> on_drop, result |-> TRUE,
                      stage |-> "queued", on_drop_calls |-> 0])
              /\ dqueue' = Append(dqueue, Len(items) + 1)
    /\ UNCHANGED <<cfg_max_queue, session_locks, locks, witem, wlock,
                   last_failed>>
    /\ UNCHANGED otherThanDisp

\* (mutant of QueueAfterGet: the worker reads the oldest item and leaves it
\* in the queue)
QueueAfterPeek(q) == q

\* the queue after queue.get returned its oldest item
QueueAfterGet(q) == Tail(q)

\* _worker: queue.get returns the oldest item; the lock of its session_id is
\* looked up or created; the worker enters the lock and starts the work, or
\* joins the lock's waiters.
WorkerGet(w) ==
    /\ wpc[w] = "get"
    /\ dqueue # <<>>
    /\ LET i == Head(dqueue)
           key == items[i].key
           fresh == Len(locks) + 1
           l == IF key = NoKey THEN NoLock
                ELSE SessionLockEntry(session_locks, key, fresh)
           locks1 == IF l = fresh
                       THEN Append(locks, [locked |-> FALSE, waiters |-> <<>>])
                       ELSE locks
           free == IF l = NoLock THEN TRUE ELSE LockFree(locks1[l])
       IN  /\ dqueue' = QueueAfterGet(dqueue)
           /\ witem' = [witem EXCEPT ![w] = i]
           /\ wlock' = [wlock EXCEPT ![w] = l]
           /\ session_locks' = IF key = NoKey THEN session_locks
                               ELSE [session_locks EXCEPT ![key] = l]
           /\ locks' = IF l = NoLock THEN locks1
                       ELSE IF free
                         THEN [locks1 EXCEPT ![l].locked = TRUE]
                         ELSE [locks1 EXCEPT ![l].waiters = Append(@, w)]
           /\ wpc' = [wpc EXCEPT ![w] = IF free THEN "run" ELSE "lock_wait"]
           /\ items' = [items EXCEPT ![i].stage =
                                       IF free THEN "running" ELSE "lock_wait"]
    /\ UNCHANGED <<cfg_max_queue, started, workers_started, last_failed>>
    /\ UNCHANGED otherThanDisp

\* The first waiter of a released lock resumes in Lock.acquire, owns the
\* lock and starts the work.
WorkerLockAcquired(w) ==
    /\ wpc[w] = "lock_wait"
    /\ ~locks[wlock[w]].locked
    /\ Head(locks[wlock[w]].waiters) = w
    /\ locks' = [locks EXCEPT ![wlock[w]] =
                    [locked |-> TRUE, waiters |-> Tail(@.waiters)]]
    /\ wpc' = [wpc EXCEPT ![w] = "run"]
    /\ items' = [items EXCEPT ![witem[w]].stage = "running"]
    /\ UNCHANGED <<cfg_max_queue, dqueue, started, workers_started,
                   session_locks, witem, wlock,
                   last_failed>>
    /\ UNCHANGED otherThanDisp

\* how the work of an item ends: it returns, or raises an Exception
WorkOutcomes == {"ok", "Exception"}

\* (mutant of RunItemCatches: _run_item without its except clause)
RunItemCatchesNothing(outcome) == FALSE

\* _run_item: except Exception, logged
RunItemCatches(outcome) == outcome = "Exception"

\* (mutant of LockAfterRelease: the lock is acquired and never released)
LockKept(l) == l

\* the end of `async with lock`: Lock.release()
LockAfterRelease(l) == [l EXCEPT !.locked = FALSE]

\* The work of the worker's item ends.  _run_item returns (an Exception the
\* work raised was caught and logged), the lock is released, task_done, and
\* the worker loops to get.  An exception that _run_item let through would
\* release the lock and call task_done on its way out of the worker task.
WorkerFinish(w, outcome) ==
    /\ wpc[w] = "run"
    /\ locks' = IF wlock[w] = NoLock THEN locks
                ELSE [locks EXCEPT ![wlock[w]] = LockAfterRelease(@)]
    /\ items' = [items EXCEPT ![witem[w]].stage = "done"]
    /\ last_failed' = IF outcome = "ok" THEN last_failed ELSE witem[w]
    /\ wpc' = [wpc EXCEPT ![w] = IF outcome = "ok" \/ RunItemCatches(outcome)
                                   THEN "get" ELSE "dead"]
    /\ witem' = [witem EXCEPT ![w] = 0]
    /\ wlock' = [wlock EXCEPT ![w] = NoLock]
    /\ UNCHANGED <<cfg_max_queue, dqueue, started, workers_started,
                   session_locks>>
    /\ UNCHANGED otherThanDisp

NextDisp ==
    \/ \E key \in {NoKey} \cup DispatchKeys, on_drop \in BOOLEAN :
           DispEnqueue(key, on_drop)
    \/ \E w \in WorkerIds : WorkerGet(w)
    \/ \E w \in WorkerIds : WorkerLockAcquired(w)
    \/ \E w \in WorkerIds, outcome \in WorkOutcomes : WorkerFinish(w, outcome)

\* ======================================================= permission requests
\* session.py: the can_use_tool callback made by create_permission_handler
\* answers from the allowlists or asks the user (request_tool_permission);
\* the approval buttons call resolve_permission.
\*
\* asyncio facts relied on: cancelling a task that awaits a future cancels
\* the future; set_result on a cancelled future raises InvalidStateError.
\* resolve_permission contains no await, so one call is one step.

DEFAULT_ALLOWED_TOOLS ==
    {"Read", "Write", "Edit", "Bash", "Glob", "Grep", "Task", "WebSearch",
     "Skill", "mcp__telegram-tools__send_to_telegram"}

\* tools the SDK asks permission for
ToolNames == {"Bash", "WebFetch"}
\* the tool_name a button callback carries ("" : empty or None)
ResolveTools == {"", "WebFetch"}

PermInit ==
    /\ pending_permissions = {}
    /\ allowlist = {}
    /\ perm_reqs = <<>>
    /\ resolve_log = <<>>
    /\ auto_allowed = 0

is_tool_allowed(tool_name) ==
    tool_name \in DEFAULT_ALLOWED_TOOLS \/ tool_name \in allowlist

\* (mutant of add_to_allowlist: the new list is not written back)
add_to_allowlist_unsaved(tools, tool_name) == tools

\* add_to_allowlist: load_allowlist, tools.add, save_allowlist
add_to_allowlist(tools, tool_name) == tools \cup {tool_name}

\* (mutant of AllowedAtOnce: a handler that asks the user whatever the
\* allowlists say)
AskedFirst(tool_name) == FALSE

\* handle_permission lines 498-507: in_allowlist = is_tool_allowed(...),
\* and `if in_allowlist: return PermissionResultAllow`
AllowedAtOnce(tool_name) == is_tool_allowed(tool_name)

\* handle_permission up to its first suspension: a tool on an allowlist is
\* allowed at once; without a platform client the request is denied; else
\* the prompt with the approval buttons is being sent.
PermissionCheck(tool_name, platform) ==
    /\ Len(perm_reqs) + auto_allowed < MaxRequests
    /\ IF AllowedAtOnce(tool_name)
         THEN /\ auto_allowed' = auto_allowed + 1
              /\ UNCHANGED perm_reqs
         ELSE /\ perm_reqs' = Append(perm_reqs,
                     [tool |-> tool_name,
                      pc |-> IF platform THEN "send" ELSE "returned",
                      future |-> "none",
                      got |-> IF platform THEN "none" ELSE "False",
                      decisions |-> 0])
              /\ UNCHANGED auto_allowed
    /\ UNCHANGED <<pending_permissions, allowlist, resolve_log>>
    /\ UNCHANGED otherThanPerm

\* send_message returned: the future is created and registered under the
\* request id, and the handler waits on it.
PermissionRegister(r) ==
    /\ r \in DOMAIN perm_reqs
    /\ perm_reqs[r].pc = "send"
    /\ perm_reqs' = [perm_reqs EXCEPT ![r].pc = "wait", ![r].future = "pending"]
    /\ pending_permissions' = pending_permissions \cup {r}
    /\ UNCHANGED <<allowlist, resolve_log, auto_allowed>>
    /\ UNCHANGED otherThanPerm

\* (mutant of AwaitReturns: a wait that also ends by a timeout)
AwaitTimesOut(fut) == TRUE

\* `allowed = await future` (line 483, no timeout) goes on when the future
\* has a result
AwaitReturns(fut) == fut \in {"True", "False"}

\* The future has a result: request_tool_permission returns it.
WaiterResumes(r) ==
    /\ r \in DOMAIN perm_reqs
    /\ perm_reqs[r].pc = "wait"
    /\ AwaitReturns(perm_reqs[r].future)
    /\ perm_reqs' = [perm_reqs EXCEPT ![r].pc = "returned",
                                      ![r].got = perm_reqs[r].future,
                                      ![r].decisions = @ + 1]
    /\ UNCHANGED <<pending_permissions, allowlist, resolve_log, auto_allowed>>
    /\ UNCHANGED otherThanPerm

\* The turn the request belongs to is cancelled (task.cancel() in
\* interrupt_session or _cancel_current_task): CancelledError is raised at
\* the handler's await; a future it was waiting on is cancelled with it.
\* Nothing on this path touches pending_permissions.
WaiterCancelled(r) ==
    /\ r \in DOMAIN perm_reqs
    /\ perm_reqs[r].pc \in {"send", "wait"}
    /\ perm_reqs' = [perm_reqs EXCEPT
                        ![r].pc = "cancelled",
                        ![r].future = IF @ = "pending" THEN "cancelled" ELSE @]
    /\ UNCHANGED <<pending_permissions, allowlist, resolve_log, auto_allowed>>
    /\ UNCHANGED otherThanPerm

\* pending_permissions.pop(request_id, None) leaves this table behind
EntryPopped(pp, id) == pp \ {id}

\* resolve_permission(request_id, allowed, always, tool_name)
ResolvePermission(id, allowed, always, tool_name) ==
    /\ Len(resolve_log) < MaxResolves
    /\ LET found == id \in pending_permissions
           fut == IF found THEN perm_reqs[id].future ELSE "none"
           allow1 == IF found /\ always /\ tool_name # ""
                       THEN add_to_allowlist(allowlist, tool_name)
                       ELSE allowlist
           pend1 == IF found THEN EntryPopped(pending_permissions, id)
                    ELSE pending_permissions
           outcome == IF ~found THEN "False"
                      ELSE IF fut = "pending" THEN "True"
                      ELSE "InvalidStateError"
       IN  /\ pending_permissions' = pend1
           /\ allowlist' = allow1
           /\ perm_reqs' = IF found /\ fut = "pending"
                             THEN [perm_reqs EXCEPT ![id].future =
                                       IF allowed THEN "True" ELSE "False"]
                             ELSE perm_reqs
           /\ resolve_log' = Append(resolve_log,
                  [id |-> id, always |-> always, outcome |-> outcome,
                   \* what a call that returned True was asked to do: the
                   \* value to deliver, the tool to allow from now on
                   delivered |-> IF outcome # "True" THEN "none"
                                 ELSE IF allowed THEN "True" ELSE "False",
                   granted |-> IF outcome = "True" /\ allowed /\ always
                               THEN tool_name ELSE "",
                   waiter_cancelled |-> /\ id \in DOMAIN perm_reqs
                                        /\ perm_reqs[id].pc = "cancelled",
                   pending_changed |-> pend1 # pending_permissions,
                   allowlist_changed |-> allow1 # allowlist])
    /\ UNCHANGED auto_allowed
    /\ UNCHANGED otherThanPerm

NextPerm ==
    \/ \E tool_name \in ToolNames, platform \in BOOLEAN :
           PermissionCheck(tool_name, platform)
    \/ \E r \in 1..MaxRequests : PermissionRegister(r)
    \/ \E r \in 1..MaxRequests : WaiterResumes(r)
    \/ \E r \in 1..MaxRequests : WaiterCancelled(r)
    \/ \E id \in 1..MaxRequests, allowed \in BOOLEAN, always \in BOOLEAN,
          tool_name \in ResolveTools :
           ResolvePermission(id, allowed, always, tool_name)

\* ========================================================== the coordinator
\* core/dispatcher.py: route_trigger creates the SessionActor of a session
\* key under _session_lock and enqueues the trigger on the registered actor.
\* The only suspension points of route_trigger are the wait for the lock and
\* listener.create_session: SessionActor.start and enqueue (an unbounded
\* mailbox) run through.

\* no SessionActor (no entry in _sessions)
NoActor == 0

\* the session keys triggers carry
CoordKeys == {"k1", "k2"}

\* backend session ids a turn can end with; NoSessionId: session_id is None,
\* or no entry in the store
SessionIds == {"s1", "s2"}
NoSessionId == "none"

\* no working directory: None, or an empty string ("if cwd:" is false)
NoCwd == ""

\* trigger.reply_context.get("cwd")
CtxCwds == {NoCwd, "/context/path"}

\* what the listener does when asked: it has no resolve_cwd attribute, its
\* resolve_cwd returns None, raises, or returns a path
ListenerAnswers == {"no_resolve_cwd", "None", "raises", "/listener/path"}

\* what _create_session meets up to listener.create_session: whether the
\* platform has a listener, the cwd of the reply context, the listener's answer
CreateInputs == [listener : BOOLEAN, ctx_cwd : CtxCwds, answer : ListenerAnswers]

\* Dispatcher._resolve_cwd: the cwd of the reply context if it is truthy;
\* else what listener.resolve_cwd returns (None included) if the listener
\* has the method and the call does not raise; else None.
ResolveCwd(ctx_cwd, answer) ==
    IF ctx_cwd # NoCwd
      THEN [cwd |-> ctx_cwd, consulted |-> FALSE]
      ELSE IF answer = "no_resolve_cwd"
        THEN [cwd |-> NoCwd, consulted |-> FALSE]
        ELSE IF answer \in {"raises", "None"}
          THEN [cwd |-> NoCwd, consulted |-> TRUE]
          ELSE [cwd |-> answer, consulted |-> TRUE]

\* no call of _resolve_cwd recorded
NoCwdCall == [called |-> FALSE, ctx_cwd |-> NoCwd, answer |-> "None",
              cwd |-> NoCwd, consulted |-> FALSE]

\* a call of _resolve_cwd with its result
CwdCall(create) ==
    [called |-> TRUE, ctx_cwd |-> create.ctx_cwd, answer |-> create.answer,
     cwd |-> ResolveCwd(create.ctx_cwd, create.answer).cwd,
     consulted |-> ResolveCwd(create.ctx_cwd, create.answer).consulted]

CoordInit ==
    /\ coord_sessions = [key \in CoordKeys |-> NoActor]
    /\ coord_lock = [locked |-> FALSE, waiters |-> <<>>]
    /\ routes = <<>>
    /\ actors = <<>>
    /\ coord_stop = [pc |-> "idle", todo |-> <<>>, closed |-> {},
                     listeners_stopped |-> FALSE]
    /\ session_store = [key \in CoordKeys |-> NoSessionId]
    /\ restarts = 0
    /\ cwd_call = NoCwdCall

\* what _create_session does before it reaches listener.create_session:
\* raise ValueError (no listener), return None (no cwd), or go on
CreateFailure(create) ==
    IF ~create.listener THEN "ValueError"
    ELSE IF ResolveCwd(create.ctx_cwd, create.answer).cwd = NoCwd
      THEN "no_cwd" ELSE "none"

\* the exceptions creation can end with: the ValueError of _create_session
\* and whatever subclass of Exception the listener raises
ExceptionKinds == {"ValueError", "Exception"}

\* (mutant of ExceptCatches: a handler for ValueError only)
ExceptCatchesValueError(exc) == exc = "ValueError"

\* except Exception: around _create_session in route_trigger
ExceptCatches(exc) == exc \in ExceptionKinds

\* (mutant of SessionLockFree: route_trigger without the lock)
SessionLockAbsent(l) == TRUE

\* async with self._session_lock: entered without waiting
SessionLockFree(l) == LockFree(l)

\* route_trigger from the moment it holds the lock (lk: the lock, held) up to
\* its next suspension or its return; rs: the calls, call c among them.
RouteUnderLock(c, rs, lk, create) ==
    LET key == rs[c].key
        a == coord_sessions[key]
    IN  IF a # NoActor
          THEN \* registered: leave the lock, look the actor up, enqueue
               /\ coord_lock' = [lk EXCEPT !.locked = FALSE]
               /\ actors' = [actors EXCEPT ![a].mailbox = Append(@, c)]
               /\ routes' = [rs EXCEPT ![c].pc = "returned",
                                       ![c].saw_registered = TRUE,
                                       ![c].enqueued_on = a]
               /\ UNCHANGED coord_sessions
          ELSE IF CreateFailure(create) # "none"
            THEN \* ValueError (caught and logged), or no cwd (None):
                 \* return without an actor
                 /\ coord_lock' = [lk EXCEPT !.locked = FALSE]
                 /\ routes' = [rs EXCEPT
                        ![c].pc = "returned",
                        ![c].attempted_create = TRUE,
                        ![c].failure = CreateFailure(create),
                        ![c].raised = /\ CreateFailure(create) \in ExceptionKinds
                                      /\ ~ExceptCatches(CreateFailure(create))]
                 /\ UNCHANGED <<coord_sessions, actors>>
            ELSE \* suspended in listener.create_session, lock held
                 /\ coord_lock' = lk
                 /\ routes' = [rs EXCEPT ![c].pc = "creating",
                                         ![c].attempted_create = TRUE]
                 /\ UNCHANGED <<coord_sessions, actors>>

\* route_trigger(trigger) is called by a listener that has not been stopped.
RouteTrigger(key, create, record) ==
    /\ Len(routes) < MaxRoutes
    /\ cwd_call' = IF /\ record
                      /\ SessionLockFree(coord_lock)
                      /\ coord_sessions[key] = NoActor
                      /\ create.listener
                     THEN CwdCall(create) ELSE cwd_call
    /\ ~coord_stop.listeners_stopped
    /\ LET c == Len(routes) + 1
           new == [key |-> key, pc |-> "lock_wait", saw_registered |-> FALSE,
                   enqueued_on |-> NoActor, attempted_create |-> FALSE,
                   failure |-> "none", raised |-> FALSE]
       IN  IF SessionLockFree(coord_lock)
             THEN RouteUnderLock(c, Append(routes, new),
                                 [coord_lock EXCEPT !.locked = TRUE], create)
             ELSE /\ routes' = Append(routes, new)
                  /\ coord_lock' = [coord_lock EXCEPT !.waiters = Append(@, c)]
                  /\ UNCHANGED <<coord_sessions, actors>>
    /\ UNCHANGED coord_stop
    /\ UNCHANGED storeVars
    /\ UNCHANGED otherThanCoord

\* (mutant of SessionLockNext: a released lock goes to the waiter that came
\* last)
SessionLockNextNewest(ws) == ws[Len(ws)]

\* asyncio.Lock.release wakes the waiter that has waited longest
SessionLockNext(ws) == Head(ws)

\* The lock was released and this call is the waiter it goes to.
RouteLockAcquired(c, create, record) ==
    /\ c \in DOMAIN routes
    /\ routes[c].pc = "lock_wait"
    /\ cwd_call' = IF /\ record
                      /\ coord_sessions[routes[c].key] = NoActor
                      /\ create.listener
                     THEN CwdCall(create) ELSE cwd_call
    /\ ~coord_lock.locked
    /\ coord_lock.waiters # <<>>
    /\ SessionLockNext(coord_lock.waiters) = c
    /\ RouteUnderLock(c, routes,
                      [locked |-> TRUE,
                       waiters |-> SelectSeq(coord_lock.waiters,
                                             LAMBDA x : x # c)],
                      create)
    /\ UNCHANGED coord_stop
    /\ UNCHANGED storeVars
    /\ UNCHANGED otherThanCoord

\* _create_session lines 104-110: session_store.get(session_key), and the
\* session_id of the new session set from a persisted entry
RestoredSessionId(key) == session_store[key]

\* listener.create_session returns: the SessionActor is constructed,
\* registered and started, the lock released and the trigger enqueued on the
\* registered actor; or it raises: the error is logged and the call returns.
RouteCreateReturns(c, ok) ==
    /\ c \in DOMAIN routes
    /\ routes[c].pc = "creating"
    /\ coord_lock' = [coord_lock EXCEPT !.locked = FALSE]
    /\ IF ok
         THEN LET a == Len(actors) + 1
                  key == routes[c].key
              IN  /\ actors' = Append(actors,
                         [key |-> key, starts |-> 1, mailbox |-> <<c>>,
                          session_id |-> RestoredSessionId(key)])
                  /\ coord_sessions' = [coord_sessions EXCEPT ![key] = a]
                  /\ routes' = [routes EXCEPT ![c].pc = "returned",
                                              ![c].enqueued_on = a]
         ELSE /\ routes' = [routes EXCEPT
                     ![c].pc = "returned",
                     ![c].failure = "Exception",
                     ![c].raised = ~ExceptCatches("Exception")]
              /\ UNCHANGED <<coord_sessions, actors>>
    /\ UNCHANGED coord_stop
    /\ UNCHANGED storeVars
    /\ UNCHANGED cwd_call
    /\ UNCHANGED otherThanCoord

\* list(self._sessions.values()): the actors registered now, in the order
\* of their registration (no entry is ever removed or replaced)
SessionsSnapshot == [i \in 1..Len(actors) |-> i]

\* stop() from the end of one close() to its next suspension: inside the
\* close() of the next actor of the list (a registered actor has been
\* started, so close() waits for its run loop), or, the list done, inside
\* listener.stop().
StopGoesOn(todo) == IF todo = <<>> THEN "listeners" ELSE "closing"

\* Dispatcher.stop() is called: the list of actors is taken and the first
\* close() begins.
StopBegin ==
    /\ coord_stop.pc = "idle"
    /\ coord_stop' = [coord_stop EXCEPT !.pc = StopGoesOn(SessionsSnapshot),
                                        !.todo = SessionsSnapshot]
    /\ UNCHANGED <<coord_sessions, coord_lock, routes, actors>>
    /\ UNCHANGED storeVars
    /\ UNCHANGED cwd_call
    /\ UNCHANGED otherThanCoord

\* The close() stop() is waiting for returns; stop() goes on with the list.
StopCloseReturns ==
    /\ coord_stop.pc = "closing"
    /\ coord_stop' = [coord_stop EXCEPT
                         !.pc = StopGoesOn(Tail(coord_stop.todo)),
                         !.todo = Tail(coord_stop.todo),
                         !.closed = @ \cup {Head(coord_stop.todo)}]
    /\ UNCHANGED <<coord_sessions, coord_lock, routes, actors>>
    /\ UNCHANGED storeVars
    /\ UNCHANGED cwd_call
    /\ UNCHANGED otherThanCoord

\* The listeners have been stopped one after the other; stop() returns.
StopListenersStopped ==
    /\ coord_stop.pc = "listeners"
    /\ coord_stop' = [coord_stop EXCEPT !.pc = "returned",
                                        !.listeners_stopped = TRUE]
    /\ UNCHANGED <<coord_sessions, coord_lock, routes, actors>>
    /\ UNCHANGED storeVars
    /\ UNCHANGED cwd_call
    /\ UNCHANGED otherThanCoord

\* ------------------------------------------------ the durable session store
\* A turn of the session of actor a ends and the backend has reported
\* session id sid: send_to_claude stores it in session.session_id
\* (session.py 1022-1023, 1039-1041, 1178-1179).  No code of the program
\* calls session_store.update_session_id, so the store is not written.
TurnEndsWithSessionId(a, sid) ==
    /\ a \in DOMAIN actors
    /\ coord_sessions[actors[a].key] = a
    /\ actors[a].session_id # sid
    /\ actors' = [actors EXCEPT ![a].session_id = sid]
    /\ UNCHANGED <<coord_sessions, coord_lock, routes, coord_stop, storeVars>>
    /\ UNCHANGED cwd_call
    /\ UNCHANGED otherThanCoord

\* The process ends and a new one starts: Dispatcher.__init__ has an empty
\* registry and a fresh lock, calls in flight are gone, and
\* session_store.load() reads what the store held on disk.
ProcessRestart ==
    /\ restarts < MaxRestarts
    /\ restarts' = restarts + 1
    /\ coord_sessions' = [key \in CoordKeys |-> NoActor]
    /\ coord_lock' = [locked |-> FALSE, waiters |-> <<>>]
    /\ routes' = [c \in DOMAIN routes |->
                    IF routes[c].pc = "returned" THEN routes[c]
                    ELSE [routes[c] EXCEPT !.pc = "killed"]]
    /\ coord_stop' = [pc |-> "idle", todo |-> <<>>, closed |-> {},
                      listeners_stopped |-> FALSE]
    /\ UNCHANGED <<actors, session_store>>
    /\ UNCHANGED cwd_call
    /\ UNCHANGED otherThanCoord

NextCoord ==
    \/ \E key \in CoordKeys, create \in CreateInputs :
          RouteTrigger(key, create, FALSE)
    \/ \E c \in 1..MaxRoutes, create \in CreateInputs :
          RouteLockAcquired(c, create, FALSE)
    \/ \E c \in 1..MaxRoutes, ok \in BOOLEAN : RouteCreateReturns(c, ok)
    \/ StopBegin
    \/ StopCloseReturns
    \/ StopListenersStopped

\* ----------------------------------- session.sessions and several actors
\* Telegram chats and the thread ids of their topics (0: the General topic,
\* GENERAL_TOPIC_ID); Telegram numbers the threads of each chat on its own.
Chats == {"chatA", "chatB"}
ThreadIds == {0, 1}

\* make_session_key("telegram", chat_id, thread_id): "telegram:<chat>" for
\* the General topic, else "telegram:<chat>:<thread>"; distinct for distinct
\* pairs of chat and thread.
MakeSessionKey(chat, thread) == <<chat, thread>>

\* the conversation keys of the Telegram listener
ConvKeys == {MakeSessionKey(chat, thread) : chat \in Chats, thread \in ThreadIds}

\* sessions.get(thread_id) finds nothing; an actor that does not exist
NoSession == 0

RegInit ==
    /\ reg_sessions = [thread \in ThreadIds |-> NoSession]
    /\ reg_objs = <<>>
    /\ reg_actors = [key \in ConvKeys |->
                        [session |-> NoSession, current_task |-> NoTask,
                         pc |-> "idle", wait |-> NoTask]]
    /\ reg_turns = <<>>

\* a turn task that is not done
RegRunning(n) == n # NoTask /\ reg_turns[n].stage # "done"

\* route_trigger for a key with no actor (core/dispatcher.py 75-85):
\* TelegramListener.create_session calls _start_session_impl, which stores a
\* new ClaudeSession at sessions[thread_id], and returns sessions[thread_id]
\* as the claude_session of the new actor.
RegCreate(chat, thread) ==
    LET key == MakeSessionKey(chat, thread)
        s == Len(reg_objs) + 1
    IN  /\ reg_actors[key].session = NoSession
        /\ reg_objs' = Append(reg_objs, [owner |-> key, thread_id |-> thread,
                                         current_task |-> NoTask])
        /\ reg_sessions' = [reg_sessions EXCEPT ![thread] = s]
        /\ reg_actors' = [reg_actors EXCEPT ![key].session = s]
        /\ UNCHANGED reg_turns
        /\ UNCHANGED <<actorVars, dispVars, permVars, coordVars>>

\* _handle_prompt lines 104-117 for the actor of `key`, on the turns ts:
\* start_claude_task(thread_id, ...) with the thread_id of the actor's
\* claude_session creates the task and stores it in
\* sessions.get(thread_id).current_task; the actor keeps it in current_task.
RegStartTurn(key, ts) ==
    LET thread == reg_objs[reg_actors[key].session].thread_id
        s == reg_sessions[thread]
        n == Len(ts) + 1
    IN  /\ reg_turns' = Append(ts, [by |-> key, session |-> s,
                                    runs_in |-> NoSession, stage |-> "new",
                                    cancel |-> FALSE, interrupted_by |-> {}])
        /\ reg_objs' = [reg_objs EXCEPT ![s].current_task = n]
        /\ reg_actors' = [reg_actors EXCEPT ![key].current_task = n,
                                            ![key].pc = "idle",
                                            ![key].wait = NoTask]

\* The run loop of the actor of `key` takes a trigger with text.  With no
\* turn of its own running it starts one.  Otherwise _cancel_current_task:
\* interrupt_session(thread_id) signals the turn held by
\* sessions.get(thread_id).current_task and waits for it; when that session
\* has no running turn the actor cancels its own turn and waits for it.
RegTake(key) ==
    LET a == reg_actors[key]
        thread == reg_objs[a.session].thread_id
        target == reg_objs[reg_sessions[thread]].current_task
    IN  /\ a.session # NoSession
        /\ a.pc = "idle"
        /\ Len(reg_turns) < MaxRegTurns
        /\ IF ~RegRunning(a.current_task)
           THEN RegStartTurn(key, reg_turns)
           ELSE /\ LET w == IF RegRunning(target) THEN target
                            ELSE a.current_task
                   IN  /\ reg_turns' =
                            [reg_turns EXCEPT
                               ![w].cancel = TRUE,
                               ![w].interrupted_by = @ \cup {key}]
                       /\ reg_actors' =
                            [reg_actors EXCEPT
                               ![key].pc = IF RegRunning(target)
                                           THEN "soft_wait" ELSE "hard_wait",
                               ![key].wait = w]
                /\ UNCHANGED reg_objs
        /\ UNCHANGED reg_sessions
        /\ UNCHANGED <<actorVars, dispVars, permVars, coordVars>>

\* The turn the actor waits for is done: _cancel_current_task sets
\* current_task to None (line 182) and the run loop starts the new turn.
RegWaitReturns(key) ==
    /\ reg_actors[key].pc \in {"soft_wait", "hard_wait"}
    /\ ~RegRunning(reg_actors[key].wait)
    /\ RegStartTurn(key, reg_turns)
    /\ UNCHANGED reg_sessions
    /\ UNCHANGED <<actorVars, dispVars, permVars, coordVars>>

\* send_to_claude(thread_id, ...) begins (session.py 854): it works on
\* sessions.get(thread_id).  A task cancelled before its first step never
\* runs.
RegTurnBegin(n) ==
    /\ n \in DOMAIN reg_turns
    /\ reg_turns[n].stage = "new"
    /\ LET thread == reg_objs[reg_turns[n].session].thread_id
       IN  reg_turns' =
             IF reg_turns[n].cancel
             THEN [reg_turns EXCEPT ![n].stage = "done"]
             ELSE [reg_turns EXCEPT ![n].stage = "streaming",
                                    ![n].runs_in = reg_sessions[thread]]
    /\ UNCHANGED <<reg_sessions, reg_objs, reg_actors>>
    /\ UNCHANGED <<actorVars, dispVars, permVars, coordVars>>

\* send_to_claude ends, on its own or interrupted; its finally block clears
\* the current_task of the session it works on (session.py 1299-1302).
RegTurnEnds(n) ==
    /\ n \in DOMAIN reg_turns
    /\ reg_turns[n].stage = "streaming"
    /\ reg_turns' = [reg_turns EXCEPT ![n].stage = "done"]
    /\ reg_objs' = [reg_objs EXCEPT ![reg_turns[n].runs_in].current_task = NoTask]
    /\ UNCHANGED <<reg_sessions, reg_actors>>
    /\ UNCHANGED <<actorVars, dispVars, permVars, coordVars>>

NextReg ==
    \/ \E chat \in Chats, thread \in ThreadIds : RegCreate(chat, thread)
    \/ \E key \in ConvKeys : RegTake(key)
    \/ \E key \in ConvKeys : RegWaitReturns(key)
    \/ \E n \in 1..MaxRegTurns : RegTurnBegin(n)
    \/ \E n \in 1..MaxRegTurns : RegTurnEnds(n)

Init == ActorInit /\ DispInit /\ PermInit /\ CoordInit /\ RegInit

\* Sanity: a cancellation of the run loop never finds it in the soft wait
\* for a turn that is still running.
CancelFindsTurnDone ==
    (loop_cancel /\ loop_pc = "soft_wait") => TaskDone(loop_wait)

\* The program with the EventDispatcher at its largest configured queue size.
InitActor == Init /\ cfg_max_queue = MaxQueueCfg

SpecActor == InitActor /\ [][NextActor]_vars

\* The actors of the Telegram listener's conversations and session.sessions.
SpecReg == InitActor /\ [][NextReg]_vars

\* What the event loop and the timer of wait_for guarantee: the run loop
\* runs when it can take a trigger or when the task it waits for is done, the
\* 2 s wait of interrupt_session expires, a created task gets its first step
\* and a cancelled task gets its CancelledError.  Nothing makes a turn's
\* stream end, a caller enqueue, or anyone call close() or stop_session.
FairActor ==
    /\ WF_vars(RunLoopTake)
    /\ WF_vars(SoftTimeout)
    /\ WF_vars(InterruptReturns)
    /\ WF_vars(HardWaitReturns)
    /\ WF_vars(\E k \in TaskIds : TurnBegin(k))
    /\ WF_vars(\E k \in TaskIds : TurnCancelledUnstarted(k))
    /\ WF_vars(\E k \in TaskIds : TurnCancelled(k))

\* The same without the assumption that a turn ends: the event loop runs
\* the run loop when its wait is over, the 2 s timer of wait_for expires, a
\* created task gets its first step (or its cancellation before it), but
\* nothing makes a streaming turn finish or leave its CancelledError handler.
FairActorNoAck ==
    /\ WF_vars(RunLoopTake)
    /\ WF_vars(SoftTimeout)
    /\ WF_vars(InterruptReturns)
    /\ WF_vars(HardWaitReturns)
    /\ WF_vars(\E k \in TaskIds : TurnBegin(k))
    /\ WF_vars(\E k \in TaskIds : TurnCancelledUnstarted(k))

SpecActorNoAck == InitActor /\ [][NextActor]_vars /\ FairActorNoAck

\* What the event loop guarantees to the dispatcher's workers, and the
\* assumption that every work body ends: a worker waiting at a non-empty
\* queue gets an item, the first waiter of a released lock gets the lock,
\* and the work of a running item returns or raises.  Nothing makes a caller
\* enqueue.
\* The three steps of one worker exclude each other (each needs another
\* value of wpc[w], which only w's own steps change), so fairness for their
\* disjunction is fairness for each.
WorkerStep(w) ==
    \/ WorkerGet(w)
    \/ WorkerLockAcquired(w)
    \/ \E outcome \in WorkOutcomes : WorkerFinish(w, outcome)

FairDisp == \A w \in WorkerIds : WF_vars(WorkerStep(w))

\* The dispatcher with callers that pass no on_drop callback (the callback
\* concerns rejected items only).
NextDispLive ==
    \/ \E key \in {NoKey} \cup DispatchKeys : DispEnqueue(key, FALSE)
    \/ \E w \in WorkerIds : WorkerGet(w)
    \/ \E w \in WorkerIds : WorkerLockAcquired(w)
    \/ \E w \in WorkerIds, outcome \in WorkOutcomes : WorkerFinish(w, outcome)

SpecDispLive == Init /\ [][NextDispLive]_vars /\ FairDisp

\* The actor together with permission waits attached to it.
NextActorPerm ==
    \/ NextActor
    \/ PermissionWaitBegins
    \/ \E allowed \in BOOLEAN : ActorResolvePermission(allowed)

SpecActorPerm == InitActor /\ [][NextActorPerm]_vars

SpecActorLive == InitActor /\ [][NextActor]_vars /\ FairActor

\* The actor with triggers that carry text, images or both, while close()
\* is not called.
NextActorMedia ==
    \/ ActorStart(FALSE)
    \/ \E kind \in MediaKinds : Enqueue(kind)
    \/ RunLoopTake
    \/ SoftTimeout
    \/ InterruptReturns
    \/ HardWaitReturns
    \/ \E k \in TaskIds : TurnBegin(k)
    \/ \E k \in TaskIds : TurnCancelledUnstarted(k)
    \/ \E k \in TaskIds : TurnEmit(k)
    \/ \E k \in TaskIds : TurnFinish(k)
    \/ \E k \in TaskIds : TurnCancelled(k)
    \/ StopSession

SpecActorMedia == InitActor /\ [][NextActorMedia]_vars

\* The actor with triggers that are locally handled commands among them.
NextActorCommand ==
    \/ ActorSteps
    \/ \E kind \in CommandKinds : Enqueue(kind)

SpecActorCommand == InitActor /\ [][NextActorCommand]_vars

\* The actor with its start() calls recorded.
NextActorStart ==
    \/ NextActor
    \/ ActorStart(TRUE)

SpecActorStart == InitActor /\ [][NextActorStart]_vars

\* A watchdog retry is scheduled on the backend session: a task that sleeps
\* and then retries is created and kept in claude_session._watchdog_task.
\* `handled` is the number of triggers the run loop had handled by then.
WatchdogRetryScheduled ==
    /\ watchdog_task.state # "pending"
    /\ watchdog_task' = [state |-> "pending", handled |-> Len(processed)]
    /\ UNCHANGED <<mailbox, generation_id, active, current_task,
                   permissionVars, statVars, loop_pc, loop_trigger, loop_wait,
                   loop_cancel, closeVars, sess_exists, sess_current_task,
                   interrupt_event, pending_image_path, tasks, histVars,
                   start_hist>>
    /\ UNCHANGED otherThanActor

\* The sleep of the pending retry task ends and the retry fires; the
\* session keeps its reference to the task.
WatchdogRetryFires ==
    /\ watchdog_task.state = "pending"
    /\ watchdog_task' = [watchdog_task EXCEPT !.state = "fired"]
    /\ UNCHANGED <<mailbox, generation_id, active, current_task,
                   permissionVars, statVars, loop_pc, loop_trigger, loop_wait,
                   loop_cancel, closeVars, sess_exists, sess_current_task,
                   interrupt_event, pending_image_path, tasks, histVars,
                   start_hist>>
    /\ UNCHANGED otherThanActor

\* The actor with watchdog retries on its backend session.
NextActorWatchdog ==
    \/ NextActor
    \/ WatchdogRetryScheduled
    \/ WatchdogRetryFires

SpecActorWatchdog == InitActor /\ [][NextActorWatchdog]_vars

SpecDisp == Init /\ [][NextDisp]_vars

SpecPerm == InitActor /\ [][NextPerm]_vars

SpecCoord == InitActor /\ [][NextCoord]_vars

\* The coordinator with turns that end with a backend session id, over
\* process restarts.
NextStore ==
    \/ NextCoord
    \/ \E a \in 1..MaxRoutes, sid \in SessionIds : TurnEndsWithSessionId(a, sid)
    \/ ProcessRestart

SpecStore == InitActor /\ [][NextStore]_vars

\* The coordinator with the calls of _resolve_cwd recorded.
NextCwd ==
    \/ \E key \in CoordKeys, create \in CreateInputs :
          RouteTrigger(key, create, TRUE)
    \/ \E c \in 1..MaxRoutes, create \in CreateInputs :
          RouteLockAcquired(c, create, TRUE)
    \/ \E c \in 1..MaxRoutes, ok \in BOOLEAN : RouteCreateReturns(c, ok)
    \/ StopBegin
    \/ StopCloseReturns
    \/ StopListenersStopped

SpecCwd == InitActor /\ [][NextCwd]_vars

\* =================================================================
\* Properties of the session actor (checked under SpecActor)
\* =================================================================

C2_GenerationSteps ==
    /\ [][generation_id' >= generation_id]_vars
    /\ [](/\ \A i \in 1..Len(processed) :
                processed[i].after - processed[i].before
                    = IF processed[i].running THEN 2 ELSE 1
          /\ \A j, k \in TaskIds : j < k => tasks[j].gen < tasks[k].gen)

\* An interrupt-then-start cycle has completed and started a second turn.
C2_Witness ==
    /\ \E i \in 1..Len(processed) : processed[i].running
    /\ Len(tasks) >= 2

\* C3 (as claimed): a turn applies no side effect once the actor's
\* generation has advanced past the generation the turn was started under.
C3_NoStaleEffect ==
    stale_effects = {}

\* C4: the triggers taken by the run loop are, in order, a prefix of the
\* triggers in the order they were enqueued (trigger ids count enqueues),
\* and none is taken twice.
C4_MailboxFifo ==
    /\ Len(taken) <= Len(enqueued)
    /\ \A i \in 1..Len(taken) : taken[i] = i

\* Three triggers were taken, one of them while a turn was running and
\* another trigger was already waiting in the mailbox.
C4_Witness ==
    /\ Len(taken) >= 3
    /\ interrupt_count >= 1

\* C5: with maximum queue size Q and no item dequeued yet, the i-th enqueue
\* call returns True exactly when i <= Q, so the first Q calls return True and
\* call Q+1 returns False; an item is dropped exactly when its call returned
\* False; on_drop is invoked once for a dropped item that has one and never
\* for an accepted item.
C5_EnqueueBounded ==
    /\ (\A i \in ItemIds : items[i].stage \in {"queued", "dropped"})
          => \A i \in ItemIds : items[i].result = (i <= max_queue_size)
    /\ \A i \in ItemIds :
          /\ items[i].result = (items[i].stage # "dropped")
          /\ items[i].on_drop_calls =
                IF ~items[i].result /\ items[i].on_drop THEN 1 ELSE 0

\* Q = 2 and three enqueue calls before any dequeue: True, True, False, the
\* third item dropped with its on_drop called once; the first has one too.
C5_Witness ==
    /\ max_queue_size = 2
    /\ Len(items) = 3
    /\ \A i \in ItemIds : items[i].stage \in {"queued", "dropped"}
    /\ items[1].on_drop
    /\ items[3].on_drop
    /\ items[3].on_drop_calls = 1

\* C6: for every serialization key at most one item carrying it is executing
\* its work body, also when different workers dequeued the items; every worker
\* holding an item of a key uses the key's registered lock, and the lock
\* registered for a key never changes once it exists.
C6_KeySerialized ==
    /\ [](\A k \in DispatchKeys :
            /\ Cardinality({w \in WorkerIds :
                   wpc[w] = "run" /\ items[witem[w]].key = k}) <= 1
            /\ \A w \in WorkerIds :
                   (witem[w] # 0 /\ items[witem[w]].key = k)
                       => wlock[w] = session_locks[k])
    /\ [][\A k \in DispatchKeys :
            session_locks[k] # NoLock => session_locks'[k] = session_locks[k]]_vars

\* One worker runs an item while another worker, holding an item of the same
\* key, waits for the lock; an earlier item of that key is already done.
C6_Witness ==
    \E w1, w2 \in WorkerIds :
        /\ w1 # w2
        /\ wpc[w1] = "run"
        /\ wpc[w2] = "lock_wait"
        /\ items[witem[w1]].key = items[witem[w2]].key
        /\ \E i \in ItemIds :
              items[i].stage = "done" /\ items[i].key = items[witem[w1]].key

\* C7: if i1 was accepted before i2 and both carry the same key, the work of
\* i1 has finished before the work of i2 begins.
C7_KeyOrder ==
    \A i1, i2 \in ItemIds :
        (/\ i1 < i2
         /\ items[i1].result
         /\ items[i2].result
         /\ items[i1].key # NoKey
         /\ items[i1].key = items[i2].key
         /\ items[i2].stage \in {"running", "done"})
            => items[i1].stage = "done"

\* Three accepted items of one key: the first done, the second running, the
\* third dequeued and waiting for the lock.
C7_Witness ==
    /\ Len(items) = 3
    /\ \A i \in ItemIds : items[i].key = 1 /\ items[i].result
    /\ items[1].stage = "done"
    /\ items[2].stage = "running"
    /\ items[3].stage = "lock_wait"

\* C8: for every request id, at most one resolve_permission call returns True
\* and the waiting handler receives at most one decision; every other call on
\* that id returns False without raising and without changing the pending
\* table or the persistent allowlist.
C8_ResolveOnce ==
    \A id \in 1..MaxRequests :
        LET calls == {i \in 1..Len(resolve_log) : resolve_log[i].id = id}
            trues == {i \in calls : resolve_log[i].outcome = "True"}
        IN  /\ Cardinality(trues) <= 1
            /\ id \in DOMAIN perm_reqs => perm_reqs[id].decisions <= 1
            /\ \A i \in calls \ trues :
                  /\ resolve_log[i].outcome = "False"
                  /\ ~resolve_log[i].pending_changed
                  /\ ~resolve_log[i].allowlist_changed

\* C9: a request whose waiting turn was cancelled is no longer in the pending
\* table, and a resolve_permission call on it returns False without raising
\* and without changing the pending table or the persistent allowlist.
C9_CancelExpiresRequest ==
    /\ \A r \in DOMAIN perm_reqs :
          perm_reqs[r].pc = "cancelled" => r \notin pending_permissions
    /\ \A i \in 1..Len(resolve_log) :
          resolve_log[i].waiter_cancelled =>
              /\ resolve_log[i].outcome = "False"
              /\ ~resolve_log[i].pending_changed
              /\ ~resolve_log[i].allowlist_changed

\* C10: at most one SessionActor is ever constructed per session key and it
\* is started once; a call that found the key registered enqueued its trigger,
\* and every trigger enqueued for a key sits in the mailbox of that one
\* registered actor.
C10_OneActorPerKey ==
    /\ \A a, b \in DOMAIN actors : actors[a].key = actors[b].key => a = b
    /\ \A a \in DOMAIN actors :
          /\ actors[a].starts = 1
          /\ coord_sessions[actors[a].key] = a
    /\ \A c \in DOMAIN routes :
          /\ (routes[c].pc = "returned" /\ routes[c].saw_registered)
                => routes[c].enqueued_on # NoActor
          /\ routes[c].enqueued_on # NoActor =>
                /\ routes[c].enqueued_on = coord_sessions[routes[c].key]
                /\ \E n \in 1..Len(actors[routes[c].enqueued_on].mailbox) :
                      actors[routes[c].enqueued_on].mailbox[n] = c

\* Three calls for the same key overlapped: the first created the actor
\* while the other two waited for the lock, and all three triggers are in
\* that actor's mailbox.
C10_Witness ==
    /\ Len(routes) >= 3
    /\ \A c \in 1..3 : routes[c].key = "k1" /\ routes[c].pc = "returned"
    /\ Len(actors) = 1
    /\ actors[1].mailbox = <<1, 2, 3>>
    /\ routes[2].saw_registered
    /\ routes[3].saw_registered

\* C11: a route_trigger call whose actor creation failed (no listener, no
\* cwd, or listener.create_session raised) has returned without raising and
\* its trigger is in no mailbox; the key is not in the registry as long as
\* no call for it has completed a creation; and a call that gets the lock
\* when every earlier call for its key failed attempts creation again.
C11_FailedCreationRetried ==
    \A c \in DOMAIN routes :
        LET failed(x) == routes[x].pc = "returned" /\ routes[x].failure # "none"
            earlier == {x \in 1..(c - 1) : routes[x].key = routes[c].key}
            created(x) == /\ routes[x].key = routes[c].key
                          /\ routes[x].pc = "returned"
                          /\ routes[x].attempted_create
                          /\ routes[x].failure = "none"
        IN  /\ failed(c) =>
                /\ ~routes[c].raised
                /\ routes[c].enqueued_on = NoActor
                /\ \A a \in DOMAIN actors :
                      \A n \in 1..Len(actors[a].mailbox) : actors[a].mailbox[n] # c
            /\ (failed(c) /\ ~\E x \in DOMAIN routes : created(x))
                  => coord_sessions[routes[c].key] = NoActor
            /\ (routes[c].pc # "lock_wait" /\ \A x \in earlier : failed(x))
                  => routes[c].attempted_create

\* Creation failed in each of the three ways for three triggers of one key
\* and the fourth trigger of that key created the actor.
C11_Witness ==
    /\ Len(routes) = 4
    /\ \A c \in 1..4 : routes[c].key = "k1" /\ routes[c].pc = "returned"
    /\ routes[1].failure = "Exception"
    /\ routes[2].failure = "ValueError"
    /\ routes[3].failure = "no_cwd"
    /\ routes[4].attempted_create
    /\ routes[4].enqueued_on = coord_sessions["k1"]
    /\ coord_sessions["k1"] # NoActor

\* C12: when trigger A (1) has started a turn, trigger B (2) has been
\* enqueued after that and waits in the mailbox, then - unless the turn ends
\* on its own before B is taken, the handling of B fails, close() is called
\* or the session is stopped - the actor reaches a state where A's turn is done, B's turn is
\* the current turn, interrupt_count is 1 and the generation counter is 3.
C12_InterruptLeadsToSecondTurn ==
    (/\ enqueued = <<"text", "text">>
     /\ taken = <<1>>
     /\ mailbox = <<2>>
     /\ Len(tasks) = 1
     /\ current_task = 1
     /\ TaskRunning(1)
     /\ closes = 0
     /\ sess_exists)
    ~> (\/ /\ Len(tasks) >= 2
           /\ TaskDone(1)
           /\ current_task = 2
           /\ tasks[2].gen = 3
           /\ interrupt_count = 1
           /\ generation_id = 3
        \/ Len(processed) >= 2 /\ ~processed[2].running
        \/ Len(processed) >= 2 /\ processed[2].failed
        \/ closes > 0
        \/ ~sess_exists)

\* A's turn was still streaming when B was taken, it was ended by the
\* interrupt, and B's turn is now the current turn under generation 3.
C12_Witness ==
    /\ enqueued = <<"text", "text">>
    /\ Len(processed) = 2
    /\ processed[2].running
    /\ TaskDone(1)
    /\ current_task = 2
    /\ TaskRunning(2)
    /\ interrupt_count = 1
    /\ generation_id = 3
    /\ closes = 0

\* C13: every step in which _cancel_current_task completes, in the run loop
\* or in close(), after interrupt_session reported True or False or was not
\* called, leaves pending_permission None and has cancelled a future that
\* was held there and pending; current_task is None when it completes (the
\* run loop may then start the next turn in the same step and make it the
\* current turn).
C13_InterruptClearsPermission ==
    [][LET loopDone == /\ loop_pc \in {"soft_wait", "cancel_wait", "hard_wait"}
                       /\ Len(processed') = Len(processed) + 1
           closeDone == /\ close_pc \in {"idle", "done", "soft_wait",
                                         "cancel_wait", "hard_wait"}
                        /\ close_pc' \in {"loop_wait", "done"}
                        /\ close_pc \in {"idle", "done"} => closes' = closes + 1
           cleared == /\ pending_permission' = "None"
                      /\ (pending_permission = "Future" /\ perm_future = "pending")
                            => perm_future' = "cancelled"
       IN  /\ loopDone =>
                /\ cleared
                /\ \/ current_task' = NoTask
                   \/ /\ Len(tasks') = Len(tasks) + 1
                      /\ current_task' = Len(tasks')
           /\ closeDone => cleared /\ current_task' = NoTask
      ]_vars

\* The run loop's interrupt of a running turn has completed while the actor
\* held a pending permission future: the future is cancelled, the field is
\* None and the next turn is the current one.
C13_Witness ==
    /\ perm_future = "cancelled"
    /\ pending_permission = "None"
    /\ interrupt_count = 1
    /\ closes = 0
    /\ Len(processed) = 2
    /\ processed[2].running
    /\ current_task = 2

\* C14: an Exception raised by the work of an item does not end the worker:
\* no worker task is dead; the failed item is done and no worker holds it;
\* a lock is held only by a worker that is running an item, and the first
\* waiter of a free lock is a worker ready to take it, so later items of the
\* same key are not blocked.
C14_WorkerSurvivesFailure ==
    /\ \A w \in WorkerIds : wpc[w] # "dead"
    /\ last_failed # 0 =>
          /\ items[last_failed].stage = "done"
          /\ \A w \in WorkerIds : witem[w] # last_failed
    /\ \A l \in DOMAIN locks :
          /\ locks[l].locked =>
                \E w \in WorkerIds : wpc[w] = "run" /\ wlock[w] = l
          /\ locks[l].waiters # <<>> =>
                /\ wpc[Head(locks[l].waiters)] = "lock_wait"
                /\ wlock[Head(locks[l].waiters)] = l

\* The work of item 1 raised; item 2 of the same key, dequeued by the other
\* worker while item 1 ran, has been executed after it, and the worker that
\* ran item 1 is running item 3.
C14_Witness ==
    /\ Len(items) = 3
    /\ last_failed = 1
    /\ items[1].key = 1
    /\ items[2].key = 1
    /\ items[2].stage = "done"
    /\ items[3].stage = "running"

\* C15: the step that ends the handling of a dequeued trigger whose handling
\* failed (an Exception before or inside the try block of _handle_prompt, or
\* no task from start_claude_task) raises error_count by exactly one and
\* leaves the run loop at the mailbox unless close() has cleared `active`;
\* error_count changes in no other step; the mailbox loses a trigger only
\* in a step that dequeues it; and, while close() is not called, the run
\* loop does not stay at a non-empty mailbox after a failed trigger: the
\* next trigger is dequeued.
C15_FailureCountedOnce ==
    /\ [][LET n == Len(processed)
              ends == Len(processed') = n + 1
          IN  /\ (ends /\ processed'[n + 1].failed) =>
                    /\ error_count' = error_count + 1
                    /\ loop_pc' = IF active THEN "get" ELSE "done"
                    /\ ~loop_cancel'
              /\ ~(ends /\ processed'[n + 1].failed) =>
                    error_count' = error_count
              /\ Len(mailbox') < Len(mailbox) =>
                    /\ Len(taken') = Len(taken) + 1
                    /\ taken'[Len(taken')] = Head(mailbox)]_vars
    /\ (/\ Len(processed) > 0
        /\ processed[Len(processed)].failed
        /\ Len(taken) = Len(processed)
        /\ mailbox # <<>>
        /\ closes = 0)
       ~> (\/ Len(taken) > Len(processed)
           \/ Len(processed) > 0 /\ ~processed[Len(processed)].failed
           \/ mailbox = <<>>
           \/ closes > 0)

\* The handling of the first trigger raised before the try block and was
\* counted once; the second trigger was dequeued after it and its turn is
\* running.
C15_Witness ==
    /\ Len(processed) = 2
    /\ processed[1].failed
    /\ processed[2].trigger = 2
    /\ ~processed[2].failed
    /\ error_count = 1
    /\ message_count = 1
    /\ current_task = 1
    /\ TaskRunning(1)
    /\ loop_pc = "get"

\* C16: the step in which the run loop starts a turn leaves the loop at the
\* mailbox with the new turn not finished; whenever the loop is at the
\* mailbox, not cancelled, and a trigger is waiting, the dequeue can happen,
\* whether or not a turn is running; a dequeue that finds a turn running
\* leaves it running; and the loop waits for a turn only after it has
\* dequeued a later trigger while that turn ran.
C16_LoopDoesNotAwaitTurn ==
    [][/\ Len(tasks') = Len(tasks) + 1 =>
            /\ loop_pc' = IF active THEN "get" ELSE "done"
            /\ current_task' = Len(tasks')
            /\ tasks'[Len(tasks')].stage # "done"
       /\ (loop_pc = "get" /\ ~loop_cancel /\ mailbox # <<>>) =>
            ENABLED RunLoopTake
       /\ (Len(taken') = Len(taken) + 1 /\ TaskRunning(current_task)) =>
            /\ loop_before'.running
            /\ tasks'[current_task].stage # "done"
            /\ loop_trigger' = taken'[Len(taken')]
       /\ loop_pc' \in {"soft_wait", "cancel_wait", "hard_wait"} =>
            /\ loop_trigger' # 0
            /\ loop_before'.running]_vars

\* Trigger 2 was enqueued and dequeued while the turn of trigger 1 was
\* running; that turn is still running and the loop is interrupting it.
C16_Witness ==
    /\ taken = <<1, 2>>
    /\ Len(processed) = 1
    /\ ~processed[1].failed
    /\ current_task = 1
    /\ TaskRunning(1)
    /\ tasks[1].stage # "new"
    /\ loop_trigger = 2
    /\ loop_before.running
    /\ loop_pc = "soft_wait"

C18_ResolveDelivers ==
    [][LET n == Len(resolve_log)
           e == resolve_log'[n + 1]
       IN  (/\ Len(resolve_log') = n + 1
            /\ e.id \in pending_permissions
            /\ ~e.always) =>
              /\ e.outcome = "True"
              /\ perm_reqs[e.id].pc = "wait"
              /\ perm_reqs'[e.id].future = e.delivered
              /\ allowlist' = allowlist
              /\ pending_permissions' = pending_permissions \ {e.id}
              /\ \A r \in DOMAIN perm_reqs :
                    r # e.id => perm_reqs'[r] = perm_reqs[r]]_vars

\* C19: a use of a tool that is in the default set or in the persisted
\* allowlist at the time of the check is allowed in that step, which changes
\* neither the pending table nor the set of requests (no approval prompt is
\* sent); a request, and with it a prompt, is created only for a tool that
\* is on neither list at that time.
C19_AllowlistFirst ==
    [][/\ auto_allowed' # auto_allowed =>
            /\ auto_allowed' = auto_allowed + 1
            /\ \E t \in ToolNames : t \in DEFAULT_ALLOWED_TOOLS \cup allowlist
            /\ UNCHANGED <<perm_reqs, pending_permissions, allowlist>>
       /\ Len(perm_reqs') > Len(perm_reqs) =>
            /\ perm_reqs'[Len(perm_reqs')].tool
                  \notin DEFAULT_ALLOWED_TOOLS \cup allowlist
            /\ auto_allowed' = auto_allowed
            /\ pending_permissions' = pending_permissions]_vars

\* After one request for WebFetch was answered with "always allow", a tool
\* was used and allowed at once: there is still one request, nothing is
\* pending.
C19_Witness ==
    /\ auto_allowed = 1
    /\ Len(perm_reqs) = 1
    /\ perm_reqs[1].tool = "WebFetch"
    /\ perm_reqs[1].pc = "returned"
    /\ allowlist = {"WebFetch"}
    /\ pending_permissions = {}

\* C20: while the turn of a request waits on its future, the request is in
\* the pending table; the wait ends only by a result that a resolve call for
\* that id has set, or by the cancellation of the turn; the future gets a
\* result, and the request leaves the pending table, only in a resolve call
\* for that id.
C20_WaitEndsByResolveOrCancel ==
    [][\A r \in DOMAIN perm_reqs :
          LET n == Len(resolve_log)
              resolved == /\ Len(resolve_log') = n + 1
                          /\ resolve_log'[n + 1].id = r
              resolvedBefore == \E i \in 1..n : /\ resolve_log[i].id = r
                                                /\ resolve_log[i].outcome = "True"
          IN  /\ (perm_reqs[r].pc = "wait" /\ perm_reqs[r].future = "pending")
                    => r \in pending_permissions
              /\ (perm_reqs[r].pc = "wait" /\ perm_reqs'[r].pc # "wait") =>
                    \/ perm_reqs'[r].pc = "cancelled"
                    \/ /\ perm_reqs'[r].pc = "returned"
                       /\ resolvedBefore
                       /\ perm_reqs'[r].got = perm_reqs[r].future
              /\ (perm_reqs[r].future = "pending"
                    /\ perm_reqs'[r].future # "pending") =>
                    \/ resolved
                    \/ /\ perm_reqs'[r].future = "cancelled"
                       /\ perm_reqs'[r].pc = "cancelled"
              /\ (r \in pending_permissions /\ r \notin pending_permissions')
                    => resolved]_vars

\* Request 1 waited while request 2 was made, resolved and returned; then
\* request 1 was resolved and its turn has the answer.
C20_Witness ==
    /\ Len(perm_reqs) = 2
    /\ Len(resolve_log) = 2
    /\ resolve_log[1].id = 2
    /\ resolve_log[2].id = 1
    /\ resolve_log[2].outcome = "True"
    /\ perm_reqs[1].pc = "returned"
    /\ perm_reqs[1].got = "False"
    /\ perm_reqs[2].pc = "returned"

\* C21: the step in which a close() returns leaves the actor inactive, with
\* no current turn, no pending permission and no live run loop; and a
\* close() called on an actor in that condition returns in the same step
\* without changing any field of the actor.
C21_CloseIdempotent ==
    [][LET returns == /\ close_pc' = "done"
                      /\ (close_pc # "done" \/ closes' = closes + 1)
           closed == /\ ~active
                     /\ current_task = NoTask
                     /\ pending_permission = "None"
                     /\ loop_pc \in {"unstarted", "done"}
       IN  /\ returns =>
                /\ ~active'
                /\ current_task' = NoTask
                /\ pending_permission' = "None"
                /\ loop_pc' \in {"unstarted", "done"}
           /\ (closes' = closes + 1 /\ closed) =>
                /\ close_pc' = "done"
                /\ UNCHANGED <<mailbox, generation_id, active, current_task,
                               permissionVars, statVars, loop_pc, loop_cancel,
                               tasks, sess_current_task, interrupt_event>>]_vars

\* run-loop tasks of the actor that are not done: the one _run_loop_task
\* refers to, and those start() replaced while they were alive
RunLoopTasksAlive ==
    start_hist.orphans + (IF LoopAlive(loop_pc) THEN 1 ELSE 0)

\* C22: at most one run-loop task of the actor is alive, whatever number of
\* start() calls were made; and a start() made while the run loop is alive
\* changes nothing: the loop stays where it is, with its trigger, and the
\* mailbox and the turns are untouched.
C22_StartIdempotent ==
    /\ [](RunLoopTasksAlive <= 1)
    /\ [][start_hist'.alive_calls = start_hist.alive_calls + 1 =>
             /\ LoopAlive(loop_pc)
             /\ start_hist'.orphans = start_hist.orphans
             /\ UNCHANGED <<mailbox, generation_id, active, current_task,
                            permissionVars, statVars, loop_pc, loop_trigger,
                            loop_wait, loop_cancel, closeVars, tasks, taken,
                            processed>>]_vars

\* start() was called twice while the run loop was alive; the loop went on,
\* took a second trigger while a turn was running, and is the only one.
C22_Witness ==
    /\ start_hist.alive_calls = 2
    /\ start_hist.orphans = 0
    /\ loop_pc = "soft_wait"
    /\ taken = <<1, 2>>
    /\ RunLoopTasksAlive = 1

\* C23: in the step in which stop() returns, every actor in the registry
\* has been closed by it, the actors registered while stop() was in progress
\* included, and the listeners have been stopped.
C23_StopClosesAll ==
    [][(coord_stop.pc # "returned" /\ coord_stop'.pc = "returned") =>
          /\ coord_stop'.listeners_stopped
          /\ \A key \in CoordKeys :
                coord_sessions'[key] # NoActor =>
                   coord_sessions'[key] \in coord_stop'.closed]_vars

\* C24: the step in which a turn ends with a backend session id leaves that
\* id in the durable store under the key of the session; and an actor
\* created after a process restart for a key whose last turn ended with a
\* session id starts with that id.
C24_SessionIdPersisted ==
    [][/\ \A a \in DOMAIN actors :
             (/\ actors'[a].session_id # actors[a].session_id
              /\ actors'[a].session_id \in SessionIds) =>
                session_store'[actors[a].key] = actors'[a].session_id
       /\ (Len(actors') = Len(actors) + 1 /\ restarts > 0) =>
             \A b \in DOMAIN actors :
                (/\ actors[b].key = actors'[Len(actors')].key
                 /\ actors[b].session_id \in SessionIds
                 /\ \A d \in DOMAIN actors :
                       actors[d].key = actors[b].key => d <= b) =>
                   actors'[Len(actors')].session_id = actors[b].session_id]_vars

\* the user's home directory, str(Path.home())
HomeDir == "/home/user"

\* C25: working-directory resolution always yields a path: the cwd of the
\* trigger's reply context when one is set, without consulting the listener;
\* otherwise the path the listener's resolve_cwd returns; and the user's home
\* directory when the listener returns nothing or raises.
C25_CwdAlwaysResolved ==
    cwd_call.called =>
        /\ cwd_call.cwd # NoCwd
        /\ cwd_call.ctx_cwd # NoCwd =>
              (cwd_call.cwd = cwd_call.ctx_cwd /\ ~cwd_call.consulted)
        /\ (cwd_call.ctx_cwd = NoCwd /\ cwd_call.answer = "/listener/path") =>
              cwd_call.cwd = "/listener/path"
        /\ (cwd_call.ctx_cwd = NoCwd /\ cwd_call.answer \in {"None", "raises"}) =>
              cwd_call.cwd = HomeDir

\* C26: when the run loop processes a new trigger, a watchdog retry task
\* still pending on the backend session is cancelled and the session's
\* reference to it is cleared, so a retry scheduled for an earlier turn never
\* fires after a newer trigger has been handled.
C26_NewTriggerCancelsWatchdogRetry ==
    [][/\ (Len(processed') > Len(processed) /\ watchdog_task.state = "pending")
            => watchdog_task'.state = "None"
       /\ (watchdog_task.state = "pending" /\ watchdog_task'.state = "fired")
            => watchdog_task.handled = Len(processed)]_vars

\* C27: an enqueue that is rejected because the queue is full returns False
\* (it raises nothing) and leaves the contents and the order of the queue
\* unchanged, as well as every other item and what the workers hold; the
\* rejected item is never in the queue, never held by a worker, and its work
\* is never executed.
C27_RejectLeavesQueue ==
    /\ [](\A i \in ItemIds :
            ~items[i].result =>
                /\ items[i].stage = "dropped"
                /\ \A n \in 1..Len(dqueue) : dqueue[n] # i
                /\ \A w \in WorkerIds : witem[w] # i)
    /\ [][(/\ Len(items') = Len(items) + 1
           /\ QueueFull(dqueue)) =>
              /\ items'[Len(items')].result = FALSE
              /\ dqueue' = dqueue
              /\ \A i \in ItemIds : items'[i] = items[i]
              /\ witem' = witem
              /\ wpc' = wpc]_vars

\* Queue size 1: item 1 accepted, item 2 rejected while item 1 was queued,
\* item 3 accepted after a worker took item 1; items 1 and 3 are done and
\* item 2 is still only dropped.
C27_Witness ==
    /\ max_queue_size = 1
    /\ Len(items) = 3
    /\ items[1].stage = "done"
    /\ ~items[2].result
    /\ items[2].stage = "dropped"
    /\ items[3].stage = "done"

\* C28: a running turn is forcibly cancelled only as a fallback: every step
\* that requests the cancellation of a turn is the expiry of a soft-phase
\* wait for that turn (a wait entered after the cooperative stop signal, in
\* the run loop's interrupt or in close()); so a turn is never cancelled
\* without signal and soft wait, and a turn that ended by itself during the
\* soft phase is never cancelled.
C28_ForcedCancelOnlyAfterSoftPhase ==
    [][\A k \in TaskIds :
          (~tasks[k].cancel /\ tasks'[k].cancel) =>
              \/ /\ loop_pc = "soft_wait"
                 /\ loop_wait = k
                 /\ loop_pc' = "cancel_wait"
              \/ /\ close_pc = "soft_wait"
                 /\ close_wait = k
                 /\ close_pc' = "cancel_wait"]_vars

\* the run loop is inside the interrupt procedure (_cancel_current_task)
InInterrupt == loop_pc \in {"soft_wait", "cancel_wait", "hard_wait"}

\* C29: the actor's interrupt procedure always terminates, also when the
\* running turn never finishes by itself and never acknowledges a forced
\* cancellation: a run loop inside the interrupt procedure leaves it.
C29_InterruptTerminates == InInterrupt ~> ~InInterrupt

\* items accepted and dequeued whose work has not finished: executing, or
\* waiting for the lock of their key
InWorkers == {i \in ItemIds : items[i].stage \in {"lock_wait", "running"}}

\* C30: in every reachable state the queue holds at most max_queue_size
\* items (a configured size below 1 counts as 1) and exactly the accepted
\* items no worker has taken; at most worker_count items are dequeued and not
\* finished, each in the hands of one worker; so the accepted and unfinished
\* items are at most max_queue_size + worker_count.
C30_OutstandingBounded ==
    /\ max_queue_size >= 1
    /\ Len(dqueue) <= max_queue_size
    /\ \A i \in ItemIds :
          items[i].stage = "queued" <=> \E n \in 1..Len(dqueue) : dqueue[n] = i
    /\ \A n, m \in 1..Len(dqueue) : dqueue[n] = dqueue[m] => n = m
    /\ InWorkers = {witem[w] : w \in WorkerIds} \ {0}
    /\ Cardinality(InWorkers) <= worker_count
    /\ Cardinality({i \in ItemIds :
          items[i].stage \in {"queued", "lock_wait", "running"}})
            <= max_queue_size + worker_count

\* The bound is attained with a configured size of 0 (counted as 1): one
\* item queued, and both workers holding an item of the same key, one
\* executing it and one waiting for the lock.
C30_Witness ==
    /\ cfg_max_queue = 0
    /\ Len(dqueue) = max_queue_size
    /\ Cardinality(InWorkers) = worker_count
    /\ \E w \in WorkerIds : wpc[w] = "lock_wait"
    /\ \E w \in WorkerIds : wpc[w] = "run"

\* how far an item has got: dropped and queued items have not been dequeued
StageRank(stage) ==
    IF stage \in {"dropped", "queued"} THEN 0
    ELSE IF stage = "lock_wait" THEN 1
    ELSE IF stage = "running" THEN 2 ELSE 3

\* C31: every accepted dispatch item is dequeued by exactly one worker and
\* its work is started at most once: no two workers hold the same item, an
\* item dequeued or done is no longer in the queue, a worker takes an item
\* only from the head of the queue and only an item never taken before, an
\* item starts running only from the queue or from its wait for the lock,
\* and an item never goes back to an earlier stage.
C31_ConsumedOnce ==
    /\ [](/\ \A w1, w2 \in WorkerIds :
                (witem[w1] # 0 /\ witem[w1] = witem[w2]) => w1 = w2
          /\ \A i \in ItemIds :
                StageRank(items[i].stage) > 0 =>
                    /\ items[i].result
                    /\ \A n \in 1..Len(dqueue) : dqueue[n] # i
          /\ \A i \in ItemIds :
                items[i].stage \in {"lock_wait", "running"} <=>
                    \E w \in WorkerIds : witem[w] = i)
    /\ [][/\ \A w \in WorkerIds :
                (witem'[w] # witem[w] /\ witem'[w] # 0) =>
                    /\ witem[w] = 0
                    /\ dqueue # <<>>
                    /\ witem'[w] = Head(dqueue)
                    /\ items[witem'[w]].stage = "queued"
          /\ \A i \in ItemIds :
                /\ StageRank(items'[i].stage) >= StageRank(items[i].stage)
                /\ (items'[i].stage = "running" /\ items[i].stage # "running")
                      => items[i].stage \in {"queued", "lock_wait"}]_vars

\* All three items accepted, dequeued and done, the first two under the
\* lock of the key they share.
C31_Witness ==
    /\ Len(items) = 3
    /\ \A i \in ItemIds : items[i].stage = "done"
    /\ items[1].key = 1
    /\ items[2].key = 1
    /\ Len(locks) >= 1

\* an accepted item whose work has not finished
Unfinished(i) == items[i].stage \in {"queued", "lock_wait", "running"}

\* C32: under fair scheduling of the workers and with work bodies that end,
\* every accepted dispatch item is eventually executed: whenever accepted
\* items are unfinished, a state follows in which every item accepted so far
\* is done (no worker waits for a key's lock forever and no item stays in
\* the queue).
C32_AcceptedEventuallyDone ==
    (\E i \in ItemIds : Unfinished(i)) ~> (\A i \in ItemIds : ~Unfinished(i))

\* Three accepted items of one key, all done under the key's one lock, the
\* work of the second having raised.
C32_Witness ==
    /\ Len(items) = 3
    /\ \A i \in ItemIds : items[i].stage = "done" /\ items[i].key = 2
    /\ Len(locks) = 1
    /\ last_failed = 2

\* C33: the worker pool is started lazily and only once: before the first
\* enqueue no worker exists; after it, and after every later enqueue,
\* exactly worker_count worker tasks have been created (a configured count
\* below 1 counts as 1) and all of them are alive.
C33_PoolStartedOnce ==
    /\ worker_count >= 1
    /\ Len(items) = 0 =>
          /\ ~started
          /\ workers_started = 0
          /\ \A w \in WorkerIds : wpc[w] = "idle"
    /\ Len(items) >= 1 =>
          /\ started
          /\ workers_started = worker_count
          /\ \A w \in WorkerIds : wpc[w] \notin {"idle", "dead"}

\* Three enqueue calls have been made, the work of an item has raised, and
\* the workers are still those the first call created.
C33_Witness ==
    /\ Len(items) = 3
    /\ workers_started = worker_count
    /\ last_failed # 0
    /\ \E w \in WorkerIds : wpc[w] = "run"

\* the turns whose prompt holds the buffered first image of trigger b
UsesBuffered(b) ==
    {k \in TaskIds : \E n \in 1..Len(tasks[k].prompt) :
        tasks[k].prompt[n] = [part |-> "first_image", of |-> b]}

\* C34 as stated: a trigger with media and no text starts no turn and stores
\* its first media reference in the buffer; the next trigger with text starts
\* a turn whose prompt begins with the buffered reference followed by the
\* text, and clears the buffer; a buffered reference is used by at most one
\* turn.
C34_BufferedMediaBeginsPrompt ==
    /\ [](\A b \in 1..Len(enqueued) : Cardinality(UsesBuffered(b)) <= 1)
    /\ [][Len(processed') = Len(processed) + 1 =>
            LET t == processed'[Len(processed')].trigger
            IN  /\ enqueued[t] = "image" =>
                      /\ Len(tasks') = Len(tasks)
                      /\ pending_image_path' = t
                /\ (/\ enqueued[t] \in {"text", "text_image"}
                    /\ pending_image_path # NoImage) =>
                      /\ pending_image_path' = NoImage
                      /\ Len(tasks') = Len(tasks) + 1
                      /\ tasks'[Len(tasks')].prompt =
                            <<[part |-> "first_image", of |-> pending_image_path],
                              [part |-> "text", of |-> t]>>]_vars

\* C34 amended: a trigger with media and no text starts no turn and stores
\* its first media reference in the buffer; the next trigger with text
\* clears the buffer and starts a turn unless the start fails; the prompt of
\* that turn is the trigger's own media references if it has any, then the
\* buffered reference, then the text; a buffered reference is used by at
\* most one turn.
C34_BufferedMediaUsedOnce ==
    /\ [](\A b \in 1..Len(enqueued) : Cardinality(UsesBuffered(b)) <= 1)
    /\ [][Len(processed') = Len(processed) + 1 =>
            LET t == processed'[Len(processed')].trigger
                buffered == <<[part |-> "first_image", of |-> pending_image_path],
                              [part |-> "text", of |-> t]>>
            IN  /\ enqueued[t] = "image" =>
                      /\ Len(tasks') = Len(tasks)
                      /\ pending_image_path' = t
                /\ (/\ enqueued[t] \in {"text", "text_image"}
                    /\ pending_image_path # NoImage) =>
                      /\ pending_image_path' = NoImage
                      /\ IF processed'[Len(processed')].failed
                         THEN Len(tasks') = Len(tasks)
                         ELSE /\ Len(tasks') = Len(tasks) + 1
                              /\ tasks'[Len(tasks')].prompt =
                                   IF enqueued[t] = "text_image"
                                   THEN <<[part |-> "images", of |-> t]>>
                                            \o buffered
                                   ELSE buffered]_vars

\* Two triggers with images only, then one with text and images: its turn
\* has the prompt "own images, first image of trigger 2, text", and the
\* buffer is empty again.
C34_Witness ==
    /\ enqueued = <<"image", "image", "text_image">>
    /\ Len(tasks) = 1
    /\ tasks[1].prompt = <<[part |-> "images", of |-> 3],
                           [part |-> "first_image", of |-> 2],
                           [part |-> "text", of |-> 3]>>
    /\ pending_image_path = NoImage

\* the triggers that start no turn: empty, media only, locally handled
\* command
NoTurnKinds == {"empty", "image", "command"}

\* C35: interruption and the generation increments come before prompt
\* assembly decides whether a turn is started.  The step that takes a
\* trigger of any kind while a turn is running advances the generation,
\* counts an interrupt and enters the interrupt procedure, and has not yet
\* looked at the prompt (no turn started, buffer and counters as they were);
\* the step that handles the prompt of a trigger of any kind finds no turn
\* running and has advanced the generation by 2 since dequeue when a turn
\* was running then and by 1 otherwise.
C35_InterruptBeforeAssembly ==
    /\ [][(Len(taken') = Len(taken) + 1 /\ TaskRunning(current_task)) =>
            /\ generation_id' = generation_id + 1
            /\ interrupt_count' = interrupt_count + 1
            /\ loop_pc' \in {"soft_wait", "hard_wait"}
            /\ loop_wait' = current_task
            /\ loop_pc' = "hard_wait" => tasks'[current_task].cancel
            /\ Len(processed') = Len(processed)
            /\ Len(tasks') = Len(tasks)
            /\ pending_image_path' = pending_image_path
            /\ message_count' = message_count]_vars
    /\ [][Len(processed') = Len(processed) + 1 =>
            LET r == processed'[Len(processed')]
            IN  /\ \A k \in TaskIds : TaskDone(k)
                /\ r.after = generation_id'
                /\ r.after - r.before = IF r.running THEN 2 ELSE 1
                /\ enqueued[r.trigger] \in NoTurnKinds
                       /\ pending_image_path = NoImage =>
                      Len(tasks') = Len(tasks)]_vars

\* The second trigger handled started no turn (it is empty, media only or a
\* command) and was taken while the turn of the first was running: that
\* turn is done, one interrupt is counted and the generation is 3.
C35_Witness ==
    /\ Len(processed) >= 2
    /\ enqueued[1] = "text"
    /\ processed[2].running
    /\ enqueued[processed[2].trigger] \in NoTurnKinds
    /\ Len(tasks) = 1
    /\ TaskDone(1)
    /\ interrupt_count = 1
    /\ generation_id = 3

\* a call of close() has returned (a second call begins only after the
\* first has returned)
CloseReturned == close_pc = "done" \/ closes >= 2

\* C36: once close() has returned, whatever the run loop was doing when it
\* was called, the actor has no running turn, and no turn of the actor is
\* started afterwards, by triggers enqueued later or by a later start().
C36_CloseSafe ==
    /\ [](CloseReturned => \A k \in TaskIds : TaskDone(k))
    /\ [][CloseReturned => Len(tasks') = Len(tasks)]_vars

\* the items whose work body is executing
Executing == {i \in ItemIds : items[i].stage = "running"}

\* item i is the oldest queued item of its key, fewer than worker_count work
\* bodies are executing and no item of its key is executing or waiting for
\* the key's lock
StartableItem(i) ==
    /\ items[i].stage = "queued"
    /\ items[i].key # NoKey
    /\ \A j \in ItemIds :
          (j # i /\ items[j].key = items[i].key) =>
              /\ items[j].stage \notin {"lock_wait", "running"}
              /\ items[j].stage = "queued" => j > i
    /\ Cardinality(Executing) < worker_count

\* C37: a queued item with key K2 is never kept from starting by items of a
\* different key K1: whenever fewer than worker_count work bodies are
\* executing and no item with key K2 is executing, a worker can go on to the
\* oldest queued item with key K2 without an item of another key finishing:
\* some worker is at the queue, or about to enter a lock that is free.
C37_NoCrossKeyBlocking ==
    \A i \in ItemIds :
        StartableItem(i) =>
            \E w \in WorkerIds :
                \/ wpc[w] = "get"
                \/ wpc[w] = "lock_wait" /\ ~locks[wlock[w]].locked

\* the place of call c in the mailbox of actor a (0: not there)
MailboxPlace(a, c) ==
    LET at == {n \in 1..Len(actors[a].mailbox) : actors[a].mailbox[n] = c}
    IN  IF at = {} THEN 0 ELSE CHOOSE n \in at : TRUE

\* C38: route_trigger keeps the order of the calls of one conversation
\* (calls are numbered in the order they begin): when the trigger of call c2
\* is in a mailbox and call c1 for the same key began before c2 and did not
\* end in a failed creation, the trigger of c1 is in the same mailbox at an
\* earlier place.
C38_RouteOrderPerKey ==
    \A c1, c2 \in DOMAIN routes :
        (/\ c1 < c2
         /\ routes[c1].key = routes[c2].key
         /\ routes[c2].enqueued_on # NoActor
         /\ routes[c1].failure = "none") =>
            /\ routes[c1].enqueued_on = routes[c2].enqueued_on
            /\ MailboxPlace(routes[c1].enqueued_on, c1) > 0
            /\ MailboxPlace(routes[c1].enqueued_on, c1)
                  < MailboxPlace(routes[c2].enqueued_on, c2)

\* Call 1 created the actor of its key while calls 2 and 3 for the same key
\* waited for the lock (it is held only during a creation); the triggers of
\* calls 1 and 2 are in the mailbox in call order and call 3 is next.
C38_Witness ==
    /\ Len(routes) = 3
    /\ \A c \in 1..3 : routes[c].key = "k1"
    /\ routes[1].attempted_create
    /\ Len(actors) = 1
    /\ actors[1].mailbox = <<1, 2>>
    /\ routes[3].pc = "lock_wait"

\* C39: while a turn is running the current-task reference of the backend
\* session designates that turn (a superseded turn that ends late does not
\* clear or replace it), so the interrupt issued for a later trigger finds
\* the running turn and applies the soft phase to it.
C39_SessionRefDesignatesTurn ==
    /\ [](\A k \in TaskIds : TaskRunning(k) => sess_current_task = k)
    /\ [][(Len(taken') = Len(taken) + 1 /\ TaskRunning(current_task)) =>
            /\ loop_pc' = "soft_wait"
            /\ loop_wait' = current_task]_vars

\* The same while the session is in `sessions`: stop_session is the one way
\* the interrupt misses a running turn.
C39_HoldsWhileSessionExists ==
    /\ [](\A k \in TaskIds :
            (TaskRunning(k) /\ sess_exists) => sess_current_task = k)
    /\ [][(/\ Len(taken') = Len(taken) + 1
           /\ TaskRunning(current_task)
           /\ sess_exists) =>
            /\ loop_pc' = "soft_wait"
            /\ loop_wait' = current_task]_vars

\* C40: actors of distinct conversation keys never share backend session
\* state: a turn is registered in, and works on, the session that was
\* created for the conversation of the actor that started it, and it is
\* interrupted only by that actor.
C40_NoSharedSession ==
    \A n \in DOMAIN reg_turns :
        /\ reg_objs[reg_turns[n].session].owner = reg_turns[n].by
        /\ reg_turns[n].runs_in # NoSession =>
              reg_objs[reg_turns[n].runs_in].owner = reg_turns[n].by
        /\ reg_turns[n].interrupted_by \subseteq {reg_turns[n].by}

====
